---- MODULE Spec2Model ----
(***************************************************************************)
(* Warehouse-management backend: the in-memory store (server/storage.ts),  *)
(* the session / permission middleware and the REST route handlers         *)
(* (server/routes.ts, kept here as src/unnamed/part_000).                  *)
(*                                                                         *)
(* Conventions of the model                                                *)
(*  - a JS object is a function from field names to values; a field that   *)
(*    is undefined is a field that is absent from the domain;              *)
(*  - `undefined` as the result of a lookup is the empty function;         *)
(*  - a Map<number, T> is a function from the keys set so far to records;  *)
(*    keys are handed out in increasing order and never removed, so the    *)
(*    insertion order Array.from(map.values()) walks is the key order;     *)
(*  - every handler other than POST /api/inventory is one atomic action    *)
(*    (requests that do not overlap); POST /api/inventory is split at its  *)
(*    `await` points so that two requests can be in flight together.       *)
(***************************************************************************)
EXTENDS Integers, Sequences, FiniteSets, TLC

VARIABLES
    users,                  \* MemStorage.users
    roles,                  \* MemStorage.roles
    items,                  \* MemStorage.items
    inventory,              \* MemStorage.inventory
    inventoryTransactions,  \* MemStorage.inventoryTransactions
    orders,                 \* MemStorage.orders
    orderItems,             \* MemStorage.orderItems
    activityLogs,           \* MemStorage.activityLogs
    shipments,              \* MemStorage.shipments
    tables,                 \* MemStorage.organizations, warehouses, zones,
                            \* binTypes, bins, categories, suppliers: one map each
    now,                    \* the clock new Date() reads
    currentIds,             \* MemStorage.currentIds
    sessions,               \* session store: session -> serialized user id (0: none)
    resp,                   \* the last HTTP response sent
    procs,                  \* POST /api/inventory requests in flight
    receipts                \* history: the bodies of the POST /api/inventory
                            \* requests answered 201, in order

store == <<users, roles, items, inventory, inventoryTransactions, orders,
           orderItems, activityLogs, shipments, tables, currentIds>>

vars == <<users, roles, items, inventory, inventoryTransactions, orders,
          orderItems, activityLogs, shipments, tables, now, currentIds, sessions,
          resp, procs, receipts>>

---------------------------------------------------------------------------
(* Bounds of the model *)

\* accepted mutating requests: no handler starts once the activity log holds
\* MaxLog entries
MaxLog == 3

\* largest quantity a request body carries
MaxQty == 2

\* latest reading of the clock
MaxTime == 1

---------------------------------------------------------------------------
(* JS values *)

Undefined == << >>

Has(obj, k) == k \in DOMAIN obj

\* { ...a, ...b }
Merge(a, b) ==
    [k \in DOMAIN a \cup DOMAIN b |-> IF k \in DOMAIN b THEN b[k] ELSE a[k]]

\* the object restricted to the keys ks (a schema's parse keeps only its columns)
Pick(obj, ks) == [k \in DOMAIN obj \cap ks |-> obj[k]]

\* const { password, ...rest } = obj
Omit(obj, ks) == [k \in DOMAIN obj \ ks |-> obj[k]]

\* { [k]: src[k] } when src[k] is defined, {} otherwise
Opt(k, src, field) == IF Has(src, field) THEN [x \in {k} |-> src[field]] ELSE << >>

MapSetAlone(m, id, rec) == [k \in {id} |-> rec]

\* Map.set(id, rec)
MapSet(m, id, rec) == [k \in DOMAIN m \cup {id} |-> IF k = id THEN rec ELSE m[k]]

\* Map.get(id)
MapGet(m, id) == IF id \in DOMAIN m THEN m[id] ELSE Undefined

MinOf(S) == CHOOSE x \in S : \A y \in S : x <= y

\* Array.from(m.values()).find(pred), hit being the keys whose record satisfies
\* pred: the first such record in insertion order
Find(m, hit) == IF hit = {} THEN Undefined ELSE m[MinOf(hit)]

\* JS null where an object is expected: told from every object of the model by
\* its one field
Null == [null |-> TRUE]

\* JS numbers: the integers of the model and NaN.  NaN is encoded as an integer
\* outside every quantity the bounded model can build.
NaN == -1000000

\* ToNumber(obj[f]): an undefined operand of an arithmetic operator is NaN
ToNumber(obj, f) == IF Has(obj, f) THEN obj[f] ELSE NaN

\* x + y on JS numbers
JsAdd(x, y) == IF x = NaN \/ y = NaN THEN NaN ELSE x + y

\* x - y on JS numbers
JsSub(x, y) == IF x = NaN \/ y = NaN THEN NaN ELSE x - y

\* obj[f] is truthy, for a field that holds a string when present
TruthyString(obj, f) == Has(obj, f) /\ obj[f] # ""

\* obj[f] is truthy, for a field that holds a boolean when present
TruthyFlag(obj, f) == Has(obj, f) /\ obj[f]

\* (obj[f] || 0)
OrZero(obj, f) == IF ~Has(obj, f) \/ obj[f] = NaN THEN 0 ELSE obj[f]

\* bcrypt.hash / bcrypt.compare: the hash is a one-way tag of the password
BcryptHash(pw) == <<"bcrypt", pw>>

BcryptCompare(pw, hash) == hash = BcryptHash(pw)

---------------------------------------------------------------------------
(* The route table: for every route registered outside /api/auth, whether
   isAuthenticated is in its middleware chain and the permission its
   hasPermission(...) middleware asks for (NoPermission: no such middleware).
   The three /api/auth routes have neither and are actions of their own. *)

NoPermission == "-"

RouteTable ==
    <<
       <<"GET /api/users", TRUE, "users:read">>,
       <<"GET /api/users/:id", TRUE, "users:read">>,
       <<"POST /api/users", TRUE, "users:create">>,
       <<"PATCH /api/users/:id", TRUE, "users:update">>,
       <<"GET /api/organizations", TRUE, NoPermission>>,
       <<"GET /api/organizations/:id", TRUE, NoPermission>>,
       <<"POST /api/organizations", TRUE, "organizations:create">>,
       <<"PATCH /api/organizations/:id", TRUE, "organizations:update">>,
       <<"GET /api/roles", TRUE, "roles:read">>,
       <<"GET /api/roles/:id", TRUE, "roles:read">>,
       <<"POST /api/roles", TRUE, "roles:create">>,
       <<"PATCH /api/roles/:id", TRUE, "roles:update">>,
       <<"GET /api/warehouses", TRUE, NoPermission>>,
       <<"GET /api/warehouses/:id", TRUE, NoPermission>>,
       <<"POST /api/warehouses", TRUE, "warehouses:create">>,
       <<"PATCH /api/warehouses/:id", TRUE, "warehouses:update">>,
       <<"GET /api/zones", TRUE, NoPermission>>,
       <<"GET /api/zones/:id", TRUE, NoPermission>>,
       <<"POST /api/zones", TRUE, "warehouses:create">>,
       <<"PATCH /api/zones/:id", TRUE, "warehouses:update">>,
       <<"GET /api/bin-types", TRUE, NoPermission>>,
       <<"GET /api/bin-types/:id", TRUE, NoPermission>>,
       <<"POST /api/bin-types", TRUE, "warehouses:create">>,
       <<"PATCH /api/bin-types/:id", TRUE, "warehouses:update">>,
       <<"GET /api/bins", TRUE, NoPermission>>,
       <<"GET /api/bins/:id", TRUE, NoPermission>>,
       <<"POST /api/bins", TRUE, "warehouses:create">>,
       <<"PATCH /api/bins/:id", TRUE, "warehouses:update">>,
       <<"GET /api/categories", TRUE, NoPermission>>,
       <<"GET /api/categories/:id", TRUE, NoPermission>>,
       <<"POST /api/categories", TRUE, "inventory:create">>,
       <<"PATCH /api/categories/:id", TRUE, "inventory:update">>,
       <<"GET /api/suppliers", TRUE, NoPermission>>,
       <<"GET /api/suppliers/:id", TRUE, NoPermission>>,
       <<"POST /api/suppliers", TRUE, "inventory:create">>,
       <<"PATCH /api/suppliers/:id", TRUE, "inventory:update">>,
       <<"GET /api/items", TRUE, NoPermission>>,
       <<"GET /api/items/:id", TRUE, NoPermission>>,
       <<"POST /api/items", TRUE, "inventory:create">>,
       <<"PATCH /api/items/:id", TRUE, "inventory:update">>,
       <<"GET /api/inventory", TRUE, NoPermission>>,
       <<"POST /api/inventory", TRUE, "inventory:create">>,
       <<"PATCH /api/inventory/:id", TRUE, "inventory:update">>,
       <<"GET /api/inventory-transactions", TRUE, NoPermission>>,
       <<"GET /api/orders", TRUE, NoPermission>>,
       <<"GET /api/orders/:id", TRUE, NoPermission>>,
       <<"POST /api/orders", TRUE, "orders:create">>,
       <<"PATCH /api/orders/:id", TRUE, "orders:update">>,
       <<"GET /api/order-items", TRUE, NoPermission>>,
       <<"PATCH /api/order-items/:id", TRUE, "orders:update">>,
       <<"GET /api/shipments", TRUE, NoPermission>>,
       <<"GET /api/shipments/:id", TRUE, NoPermission>>,
       <<"POST /api/shipments", TRUE, "shipping:create">>,
       <<"PATCH /api/shipments/:id", TRUE, "shipping:update">>,
       <<"GET /api/activity-logs", TRUE, "logs:read">>,
       <<"GET /api/reports/inventory-csv", TRUE, "reports:read">>
    >>

Routes == {RouteTable[i][1] : i \in DOMAIN RouteTable}

RoutePermission(route) ==
    LET i == CHOOSE j \in DOMAIN RouteTable : RouteTable[j][1] = route
    IN  RouteTable[i][3]

RouteChecksSession(route) ==
    LET i == CHOOSE j \in DOMAIN RouteTable : RouteTable[j][1] = route
    IN  RouteTable[i][2]

---------------------------------------------------------------------------
(* MemStorage: construction *)

Sessions == {1}

Procs == {1, 2}

SeedRoles ==
    <<[id |-> 1, name |-> "Global Admin", permissions |-> {"all"}],
      [id |-> 2, name |-> "Organization Admin", permissions |-> {"org:all"}],
      [id |-> 3, name |-> "Warehouse Worker",
       permissions |-> {"warehouse:read", "inventory:read", "inventory:write",
                        "orders:read", "orders:process"}],
      [id |-> 4, name |-> "Customer User",
       permissions |-> {"orders:read", "orders:create"}]>>

SeedUsers ==
    <<[id |-> 1, username |-> "admin", password |-> BcryptHash("password"),
       email |-> "admin@borderworx.com", fullName |-> "Admin User",
       isActive |-> TRUE, organizationId |-> 1, roleId |-> 1]>>

\* the maps of the entities whose routes all have one shape; the constructor
\* seeds one organization
SeedTables ==
    [organizations |-> <<[id |-> 1, name |-> "Borderworx",
                          description |-> "Main organization", isActive |-> TRUE]>>,
     warehouses |-> << >>, zones |-> << >>, binTypes |-> << >>, bins |-> << >>,
     categories |-> << >>, suppliers |-> << >>]

IdleProc == [pc |-> "idle"]

Init ==
    /\ users = SeedUsers
    /\ roles = SeedRoles
    /\ items = << >>
    /\ inventory = << >>
    /\ inventoryTransactions = << >>
    /\ orders = << >>
    /\ orderItems = << >>
    /\ activityLogs = << >>
    /\ shipments = << >>
    /\ tables = SeedTables
    /\ now = 0
    /\ currentIds = [user |-> 2, organization |-> 2, role |-> 5, warehouse |-> 1,
                     zone |-> 1, binType |-> 1, bin |-> 1, category |-> 1,
                     supplier |-> 1, item |-> 1, inventory |-> 1,
                     inventoryTransaction |-> 1, order |-> 1, orderItem |-> 1,
                     shipment |-> 1, activityLog |-> 1]
    /\ sessions = [s \in Sessions |-> 0]
    /\ resp = [session |-> 0, route |-> "", request |-> Undefined, status |-> 0,
               ran |-> FALSE, user |-> Undefined, body |-> Undefined]
    /\ procs = [p \in Procs |-> IdleProc]
    /\ receipts = << >>

---------------------------------------------------------------------------
(* MemStorage: users and roles *)

getUser(id) == MapGet(users, id)

getUserByUsername(username) ==
    Find(users, {k \in DOMAIN users : users[k].username = username})

\* the record createUser stores under this.currentIds.user
createUser(user) == Merge(user, [id |-> currentIds.user])

\* the record updateUser stores under id
updateUser(id, userData) == Merge(users[id], userData)

getRole(id) == MapGet(roles, id)

createRole(role) == Merge(role, [id |-> currentIds.role])

updateRole(id, roleData) == Merge(roles[id], roleData)

\* the activity log after createActivityLog has run for each entry of logs, in order
createActivityLogs(logs) ==
    LET first == currentIds.activityLog
    IN  [k \in DOMAIN activityLogs \cup (first .. first + Len(logs) - 1) |->
            IF k >= first THEN Merge(logs[k - first + 1], [id |-> k, timestamp |-> now])
            ELSE activityLogs[k]]

\* (n).toString() of a record id
IdToString(n) == ToString(n)

---------------------------------------------------------------------------
(* Session and permission middleware *)

PassOn == 0      \* the middleware called next()

\* passport.deserializeUser: req.user for a request on session s
deserializeUser(s) ==
    LET user == getUser(sessions[s])
    IN  IF user = Undefined THEN Undefined
        ELSE Merge(user, [role |-> IF Has(user, "roleId")
                                   THEN getRole(user.roleId) ELSE Undefined])

isAuthenticatedAlwaysNext(user) == PassOn

isAuthenticated(user) == IF user # Undefined THEN PassOn ELSE 401

hasPermissionBySuffix(user, permission) ==
    IF user = Undefined THEN 401
    ELSE IF user.role = Undefined \/ ~Has(user.role, "permissions") THEN 403
    ELSE IF \/ user.role.permissions \cap {"all", "org:all"} # {}
            \/ permission \in user.role.permissions
         THEN PassOn
         ELSE 403

hasPermission(user, permission) ==
    IF user = Undefined THEN 401
    ELSE IF user.role = Undefined \/ ~Has(user.role, "permissions") THEN 403
    ELSE IF "all" \in user.role.permissions \/ permission \in user.role.permissions
         THEN PassOn
         ELSE 403

\* the middleware chain of a route, up to its handler
Middleware(user, route) ==
    IF RouteChecksSession(route) /\ isAuthenticated(user) # PassOn
    THEN isAuthenticated(user)
    ELSE IF RoutePermission(route) = NoPermission THEN PassOn
    ELSE hasPermission(user, RoutePermission(route))

\* a response whose catch block answers 400 where the code answers 500
ResponseClientError(s, route, request, user, status, ran, body) ==
    [session |-> s, route |-> route, request |-> request,
     status |-> IF status = 500 THEN 400 ELSE status,
     ran |-> ran, user |-> user, body |-> body]

\* the response to a request: request holds its body, :id and query, user is req.user,
\* ran tells whether the route's handler was entered
Response(s, route, request, user, status, ran, body) ==
    [session |-> s, route |-> route, request |-> request, status |-> status,
     ran |-> ran, user |-> user, body |-> body]

\* no POST /api/inventory request is in flight
Quiet == \A p \in Procs : procs[p].pc = "idle"

\* room in the activity log for n more entries
LogRoom(n) == currentIds.activityLog + n - 1 <= MaxLog

\* a request that a middleware answers: the handler does not run
Rejected(s, route) ==
    LET user == deserializeUser(s)
    IN  /\ Quiet
        /\ Middleware(user, route) # PassOn
        /\ resp' = Response(s, route, Undefined, user, Middleware(user, route), FALSE,
                            [message |-> IF Middleware(user, route) = 401
                                         THEN "Unauthorized"
                                         ELSE "Forbidden: insufficient permissions"])
        /\ UNCHANGED <<store, now, sessions, procs, receipts>>

---------------------------------------------------------------------------
(* /api/auth *)

\* LocalStrategy verify callback: the user handed to done(), or Undefined
LocalStrategy(username, password) ==
    LET user == getUserByUsername(username)
    IN  IF user = Undefined THEN Undefined
        ELSE IF ~BcryptCompare(password, user.password) THEN Undefined
        ELSE Merge(user, [role |-> IF Has(user, "roleId")
                                   THEN getRole(user.roleId) ELSE Undefined])

\* passport.serializeUser
serializeUser(user) == user.id

\* the info object the verify callback hands to done() with user false
FailureInfo(username, password) ==
    IF getUserByUsername(username) = Undefined
    THEN [message |-> "Incorrect username"]
    ELSE [message |-> "Incorrect password"]

AuthenticateFailureWithInfo(info) == [status |-> 401, body |-> info.message]

\* passport.authenticate("local") without options, on failure: the info is
\* not sent
AuthenticateFailure(info) == [status |-> 401, body |-> "Unauthorized"]

Login(s, username, password) ==
    LET user == LocalStrategy(username, password)
        failure == AuthenticateFailure(FailureInfo(username, password))
    IN  /\ Quiet
        /\ IF user = Undefined
           THEN /\ resp' = Response(s, "POST /api/auth/login",
                                    [body |-> [username |-> username,
                                               password |-> password]],
                                    deserializeUser(s), failure.status, FALSE,
                                    failure.body)
                /\ UNCHANGED sessions
           ELSE /\ sessions' = [sessions EXCEPT ![s] = serializeUser(user)]
                /\ resp' = Response(s, "POST /api/auth/login",
                                    [body |-> [username |-> username,
                                               password |-> password]],
                                    user, 200, TRUE,
                                    [user |-> user])
        /\ UNCHANGED <<store, now, procs, receipts>>

Logout(s) ==
    /\ Quiet
    /\ sessions' = [sessions EXCEPT ![s] = 0]
    /\ resp' = Response(s, "POST /api/auth/logout", Undefined, deserializeUser(s),
                        200, TRUE,
                        [success |-> TRUE])
    /\ UNCHANGED <<store, now, procs, receipts>>

CurrentUser(s) ==
    LET user == deserializeUser(s)
    IN  /\ Quiet
        /\ resp' = IF isAuthenticated(user) = PassOn
                   THEN Response(s, "GET /api/auth/current-user", Undefined, user, 200, TRUE,
                                 [user |-> user])
                   ELSE Response(s, "GET /api/auth/current-user", Undefined, user, 401, TRUE,
                                 [message |-> "Not authenticated"])
        /\ UNCHANGED <<store, now, sessions, procs, receipts>>

---------------------------------------------------------------------------
(* Request inputs *)

Usernames == {"admin", "bob"}

RoleIdInputs == {2, 4, 5}

IdInputs == {1, 2, 3}

\* the required columns of a POST /api/users body
UserBase == [username : Usernames, password : {"pw"}, email : {"u@x"}, fullName : {"U"}]

\* POST /api/users bodies: the last one fails insertUserSchema (no email, fullName)
UserBodies ==
    UserBase
        \cup {Merge(b, [roleId |-> r]) : b \in {u \in UserBase : u.username = "bob"},
                                        r \in RoleIdInputs}
        \cup {Merge(b, [roleId |-> 4, organizationId |-> 2]) :
                  b \in {u \in UserBase : u.username = "bob"}}
        \cup {[username |-> "bob", password |-> "pw"]}

\* PATCH /api/users/:id bodies
UserPatches ==
    [username : Usernames] \cup [password : {"pw2"}] \cup [roleId : {4}]

\* POST /api/roles bodies: permissions has a column default and may be left out;
\* the last one fails insertRoleSchema (no name)
RoleBodies ==
    {[name |-> "Clerk"],
     [name |-> "Clerk", permissions |-> {"users:read", "inventory:create"}],
     [permissions |-> {"all"}]}

\* PATCH /api/roles/:id bodies
RolePatches == {[permissions |-> {"users:read"}]}

---------------------------------------------------------------------------
(* /api/users *)

UserColumns == {"username", "password", "email", "fullName", "isActive",
                "organizationId", "roleId"}

\* insertUserSchema.parse(body) succeeds
insertUserSchemaOk(body) ==
    {"username", "password", "email", "fullName"} \subseteq DOMAIN body

UsernameTakenNever(userData) == FALSE

\* the uniqueness pre-check of POST /api/users
UsernameTaken(userData) == getUserByUsername(userData.username) # Undefined

GetUsers(s, organizationId) ==
    LET user == deserializeUser(s)
        route == "GET /api/users"
        listed == {k \in DOMAIN users :
                     organizationId = 0
                     \/ (Has(users[k], "organizationId")
                         /\ users[k].organizationId = organizationId)}
    IN  /\ Quiet
        /\ Middleware(user, route) = PassOn
        /\ resp' = Response(s, route, [organizationId |-> organizationId], user,
                            200, TRUE,
                            [k \in listed |-> Omit(users[k], {"password"})])
        /\ UNCHANGED <<store, now, sessions, procs, receipts>>

GetUser(s, id) ==
    LET user == deserializeUser(s)
        route == "GET /api/users/:id"
    IN  /\ Quiet
        /\ Middleware(user, route) = PassOn
        /\ resp' = IF getUser(id) = Undefined
                   THEN Response(s, route, [id |-> id], user, 404, TRUE,
                                 [message |-> "User not found"])
                   ELSE Response(s, route, [id |-> id], user, 200, TRUE,
                                 Omit(getUser(id), {"password"}))
        /\ UNCHANGED <<store, now, sessions, procs, receipts>>

PostUsers(s, body) ==
    LET reqUser == deserializeUser(s)
        route == "POST /api/users"
        userData == Pick(body, UserColumns)
        user == createUser(Merge(userData,
                                 [password |-> BcryptHash(userData.password)]))
    IN  /\ Quiet
        /\ Middleware(reqUser, route) = PassOn
        /\ IF ~insertUserSchemaOk(body)
           THEN /\ resp' = Response(s, route, [body |-> body], reqUser, 400, TRUE,
                                    [message |-> "Invalid user data"])
                /\ UNCHANGED store
           ELSE IF UsernameTaken(userData)
           THEN /\ resp' = Response(s, route, [body |-> body], reqUser, 400, TRUE,
                                    [message |-> "Username already exists"])
                /\ UNCHANGED store
           ELSE /\ LogRoom(1)
                /\ users' = MapSet(users, currentIds.user, user)
                /\ activityLogs' = createActivityLogs(
                       <<Merge([userId |-> reqUser.id, action |-> "create",
                                entityType |-> "user",
                                entityId |-> IdToString(user.id),
                                details |-> [username |-> user.username]],
                               Opt("organizationId", userData, "organizationId"))>>)
                /\ currentIds' = [currentIds EXCEPT !.user = @ + 1,
                                                    !.activityLog = @ + 1]
                /\ resp' = Response(s, route, [body |-> body], reqUser, 201, TRUE,
                                    Omit(user, {"password"}))
                /\ UNCHANGED <<roles, items, inventory, inventoryTransactions,
                               orders, orderItems>>
        /\ UNCHANGED <<shipments, tables, now, sessions, procs, receipts>>

PatchUsers(s, id, body) ==
    LET reqUser == deserializeUser(s)
        route == "PATCH /api/users/:id"
        user == getUser(id)
        updatedData == IF Has(body, "password")
                       THEN Merge(body, [password |-> BcryptHash(body.password)])
                       ELSE body
        updatedUser == updateUser(id, updatedData)
    IN  /\ Quiet
        /\ Middleware(reqUser, route) = PassOn
        /\ IF user = Undefined
           THEN /\ resp' = Response(s, route, [id |-> id, body |-> body], reqUser, 404, TRUE,
                                    [message |-> "User not found"])
                /\ UNCHANGED store
           ELSE /\ LogRoom(1)
                /\ users' = MapSet(users, id, updatedUser)
                /\ activityLogs' = createActivityLogs(
                       <<Merge([userId |-> reqUser.id, action |-> "update",
                                entityType |-> "user",
                                entityId |-> IdToString(id),
                                details |-> [username |-> user.username]],
                               Opt("organizationId", user, "organizationId"))>>)
                /\ currentIds' = [currentIds EXCEPT !.activityLog = @ + 1]
                /\ resp' = Response(s, route, [id |-> id, body |-> body], reqUser, 200, TRUE,
                                    Omit(updatedUser, {"password"}))
                /\ UNCHANGED <<roles, items, inventory, inventoryTransactions,
                               orders, orderItems>>
        /\ UNCHANGED <<shipments, tables, now, sessions, procs, receipts>>

---------------------------------------------------------------------------
(* /api/roles *)

RoleColumns == {"name", "description", "permissions", "scope"}

insertRoleSchemaOk(body) == "name" \in DOMAIN body

GetRole(s, id) ==
    LET user == deserializeUser(s)
        route == "GET /api/roles/:id"
    IN  /\ Quiet
        /\ Middleware(user, route) = PassOn
        /\ resp' = IF getRole(id) = Undefined
                   THEN Response(s, route, [id |-> id], user, 404, TRUE,
                                 [message |-> "Role not found"])
                   ELSE Response(s, route, [id |-> id], user, 200, TRUE, getRole(id))
        /\ UNCHANGED <<store, now, sessions, procs, receipts>>

PostRoles(s, body) ==
    LET reqUser == deserializeUser(s)
        route == "POST /api/roles"
        role == createRole(Pick(body, RoleColumns))
    IN  /\ Quiet
        /\ Middleware(reqUser, route) = PassOn
        /\ IF ~insertRoleSchemaOk(body)
           THEN /\ resp' = Response(s, route, [body |-> body], reqUser, 400, TRUE,
                                    [message |-> "Invalid role data"])
                /\ UNCHANGED store
           ELSE /\ LogRoom(1)
                /\ roles' = MapSet(roles, currentIds.role, role)
                /\ activityLogs' = createActivityLogs(
                       <<[userId |-> reqUser.id, action |-> "create",
                          entityType |-> "role",
                          entityId |-> IdToString(role.id),
                          details |-> [name |-> role.name]]>>)
                /\ currentIds' = [currentIds EXCEPT !.role = @ + 1,
                                                    !.activityLog = @ + 1]
                /\ resp' = Response(s, route, [body |-> body], reqUser, 201, TRUE, role)
                /\ UNCHANGED <<users, items, inventory, inventoryTransactions,
                               orders, orderItems>>
        /\ UNCHANGED <<shipments, tables, now, sessions, procs, receipts>>

PatchRoles(s, id, body) ==
    LET reqUser == deserializeUser(s)
        route == "PATCH /api/roles/:id"
        updatedRole == updateRole(id, body)
    IN  /\ Quiet
        /\ Middleware(reqUser, route) = PassOn
        /\ IF getRole(id) = Undefined
           THEN /\ resp' = Response(s, route, [id |-> id, body |-> body], reqUser, 404, TRUE,
                                    [message |-> "Role not found"])
                /\ UNCHANGED store
           ELSE /\ LogRoom(1)
                /\ roles' = MapSet(roles, id, updatedRole)
                /\ activityLogs' = createActivityLogs(
                       <<[userId |-> reqUser.id, action |-> "update",
                          entityType |-> "role",
                          entityId |-> IdToString(id),
                          details |-> [name |-> updatedRole.name]]>>)
                /\ currentIds' = [currentIds EXCEPT !.activityLog = @ + 1]
                /\ resp' = Response(s, route, [id |-> id, body |-> body], reqUser,
                                    200, TRUE, updatedRole)
                /\ UNCHANGED <<users, items, inventory, inventoryTransactions,
                               orders, orderItems>>
        /\ UNCHANGED <<shipments, tables, now, sessions, procs, receipts>>

---------------------------------------------------------------------------
(* Organizations, warehouses, zones, bin types, bins, categories, suppliers: *)
(* their get-by-id, create and update routes have one shape                  *)

\* per map of MemStorage: its id counter, its routes, the columns of its insert
\* schema and those a body must carry, the entityType, the fields and the
\* organization of its activity-log entries, and its error messages
Entities ==
    [organizations |->
        [counter |-> "organization", get |-> "GET /api/organizations/:id",
         post |-> "POST /api/organizations", patch |-> "PATCH /api/organizations/:id",
         columns |-> {"name", "description", "isActive", "parentId"},
         required |-> {"name"}, entityType |-> "organization",
         details |-> {"name"}, organization |-> "none",
         notFound |-> "Organization not found",
         invalid |-> "Invalid organization data"],
     warehouses |->
        [counter |-> "warehouse", get |-> "GET /api/warehouses/:id",
         post |-> "POST /api/warehouses", patch |-> "PATCH /api/warehouses/:id",
         columns |-> {"name", "code", "address", "organizationId"},
         required |-> {"name", "code", "organizationId"}, entityType |-> "warehouse",
         details |-> {"name"}, organization |-> "own",
         notFound |-> "Warehouse not found", invalid |-> "Invalid warehouse data"],
     zones |->
        [counter |-> "zone", get |-> "GET /api/zones/:id",
         post |-> "POST /api/zones", patch |-> "PATCH /api/zones/:id",
         columns |-> {"name", "code", "warehouseId"},
         required |-> {"name", "code", "warehouseId"}, entityType |-> "zone",
         details |-> {"name", "warehouseId"}, organization |-> "warehouse",
         notFound |-> "Zone not found", invalid |-> "Invalid zone data"],
     binTypes |->
        [counter |-> "binType", get |-> "GET /api/bin-types/:id",
         post |-> "POST /api/bin-types", patch |-> "PATCH /api/bin-types/:id",
         columns |-> {"name", "maxWeight", "maxVolume", "dimensions",
                      "organizationId"},
         required |-> {"name", "organizationId"}, entityType |-> "binType",
         details |-> {"name"}, organization |-> "own",
         notFound |-> "Bin type not found", invalid |-> "Invalid bin type data"],
     bins |->
        [counter |-> "bin", get |-> "GET /api/bins/:id",
         post |-> "POST /api/bins", patch |-> "PATCH /api/bins/:id",
         columns |-> {"name", "code", "zoneId", "binTypeId", "isActive"},
         required |-> {"name", "code", "zoneId"}, entityType |-> "bin",
         details |-> {"name", "code", "zoneId"}, organization |-> "zone",
         notFound |-> "Bin not found", invalid |-> "Invalid bin data"],
     categories |->
        [counter |-> "category", get |-> "GET /api/categories/:id",
         post |-> "POST /api/categories", patch |-> "PATCH /api/categories/:id",
         columns |-> {"name", "description", "organizationId"},
         required |-> {"name", "organizationId"}, entityType |-> "category",
         details |-> {"name"}, organization |-> "own",
         notFound |-> "Category not found", invalid |-> "Invalid category data"],
     suppliers |->
        [counter |-> "supplier", get |-> "GET /api/suppliers/:id",
         post |-> "POST /api/suppliers", patch |-> "PATCH /api/suppliers/:id",
         columns |-> {"name", "code", "contactInfo", "organizationId"},
         required |-> {"name", "code", "organizationId"}, entityType |-> "supplier",
         details |-> {"name", "code"}, organization |-> "own",
         notFound |-> "Supplier not found", invalid |-> "Invalid supplier data"]]

EntityKinds == DOMAIN Entities

\* getOrganization, getWarehouse, getZone, getBinType, getBin, getCategory,
\* getSupplier
getEntity(kind, id) == MapGet(tables[kind], id)

\* createOrganization, ..., createSupplier: { ...insert, id }
createEntity(kind, insert) == Merge(insert, [id |-> currentIds[Entities[kind].counter]])

updateEntityReplace(kind, id, data) == Merge(Pick(tables[kind][id], {"id"}), data)

\* updateOrganization, ..., updateSupplier: { ...record, ...data }
updateEntity(kind, id, data) == Merge(tables[kind][id], data)

\* the organizationId of the activity-log entry for a record of the kind
LogOrganization(kind, record) ==
    LET own == Opt("organizationId", record, "organizationId")
        warehouseOf(zone) ==
            IF Has(zone, "warehouseId")
            THEN getEntity("warehouses", zone.warehouseId) ELSE Undefined
    IN  CASE Entities[kind].organization = "none" -> Undefined
          [] Entities[kind].organization = "own" -> own
          [] Entities[kind].organization = "warehouse" ->
                 Opt("organizationId", warehouseOf(record), "organizationId")
          [] Entities[kind].organization = "zone" ->
                 Opt("organizationId",
                     warehouseOf(IF Has(record, "zoneId")
                                 THEN getEntity("zones", record.zoneId)
                                 ELSE Undefined),
                     "organizationId")

\* GET /api/<kind>/:id
GetEntity(s, kind, id) ==
    LET user == deserializeUser(s)
        route == Entities[kind].get
    IN  /\ Quiet
        /\ Middleware(user, route) = PassOn
        /\ resp' = IF getEntity(kind, id) = Undefined
                   THEN Response(s, route, [id |-> id], user, 404, TRUE,
                                 [message |-> Entities[kind].notFound])
                   ELSE Response(s, route, [id |-> id], user, 200, TRUE,
                                 getEntity(kind, id))
        /\ UNCHANGED <<store, now, sessions, procs, receipts>>

\* POST /api/<kind>
PostEntity(s, kind, body) ==
    LET reqUser == deserializeUser(s)
        e == Entities[kind]
        record == createEntity(kind, Pick(body, e.columns))
    IN  /\ Quiet
        /\ Middleware(reqUser, e.post) = PassOn
        /\ IF ~(e.required \subseteq DOMAIN body)
           THEN /\ resp' = Response(s, e.post, [body |-> body], reqUser, 400, TRUE,
                                    [message |-> e.invalid])
                /\ UNCHANGED store
           ELSE /\ LogRoom(1)
                /\ tables' = [tables EXCEPT ![kind] = MapSet(@, record.id, record)]
                /\ activityLogs' = createActivityLogs(
                       <<Merge([userId |-> reqUser.id, action |-> "create",
                                entityType |-> e.entityType,
                                entityId |-> IdToString(record.id),
                                details |-> Pick(record, e.details)],
                               LogOrganization(kind, record))>>)
                /\ currentIds' = [currentIds EXCEPT ![e.counter] = @ + 1,
                                                    !.activityLog = @ + 1]
                /\ resp' = Response(s, e.post, [body |-> body], reqUser, 201, TRUE,
                                    record)
                /\ UNCHANGED <<users, roles, items, inventory, inventoryTransactions,
                               orders, orderItems, shipments>>
        /\ UNCHANGED <<now, sessions, procs, receipts>>

\* PATCH /api/<kind>/:id
PatchEntity(s, kind, id, body) ==
    LET reqUser == deserializeUser(s)
        e == Entities[kind]
        updated == updateEntity(kind, id, body)
    IN  /\ Quiet
        /\ Middleware(reqUser, e.patch) = PassOn
        /\ IF getEntity(kind, id) = Undefined
           THEN /\ resp' = Response(s, e.patch, [id |-> id, body |-> body], reqUser,
                                    404, TRUE, [message |-> e.notFound])
                /\ UNCHANGED store
           ELSE /\ LogRoom(1)
                /\ tables' = [tables EXCEPT ![kind] = MapSet(@, id, updated)]
                /\ activityLogs' = createActivityLogs(
                       <<Merge([userId |-> reqUser.id, action |-> "update",
                                entityType |-> e.entityType,
                                entityId |-> IdToString(id),
                                details |-> Pick(updated, e.details)],
                               LogOrganization(kind, updated))>>)
                /\ currentIds' = [currentIds EXCEPT !.activityLog = @ + 1]
                /\ resp' = Response(s, e.patch, [id |-> id, body |-> body], reqUser,
                                    200, TRUE, updated)
                /\ UNCHANGED <<users, roles, items, inventory, inventoryTransactions,
                               orders, orderItems, shipments>>
        /\ UNCHANGED <<now, sessions, procs, receipts>>

---------------------------------------------------------------------------
(* /api/items *)

Skus == {"A", "B"}

Orgs == {1, 2}

\* POST /api/items bodies: the last one fails insertItemSchema (no organizationId)
ItemBodies ==
    [sku : Skus, name : {"Widget"}, organizationId : Orgs]
        \cup {[sku |-> "A", name |-> "Widget"]}

\* PATCH /api/items/:id bodies
ItemPatches ==
    [sku : Skus] \cup [organizationId : Orgs] \cup [name : {"Gadget"}]
        \cup [sku : {"A"}, organizationId : {1}]

ItemColumns == {"sku", "name", "description", "barcode", "categoryId",
                "supplierId", "dimensions", "weight", "reorderPoint",
                "reorderQuantity", "notes", "organizationId"}

insertItemSchemaOk(body) == {"sku", "name", "organizationId"} \subseteq DOMAIN body

getItem(id) == MapGet(items, id)

getItemBySku(sku, organizationId) ==
    Find(items, {k \in DOMAIN items :
                    items[k].sku = sku /\ items[k].organizationId = organizationId})

createItem(item) == Merge(item, [id |-> currentIds.item])

updateItem(id, itemData) == Merge(items[id], itemData)

\* the uniqueness pre-check of POST /api/items
SkuTaken(itemData) ==
    getItemBySku(itemData.sku, itemData.organizationId) # Undefined

\* the uniqueness pre-check of PATCH /api/items/:id
SkuClash(id, currentItem, body) ==
    /\ Has(body, "sku")
    /\ body.sku # currentItem.sku
    /\ LET existingItem == getItemBySku(body.sku, currentItem.organizationId)
       IN  existingItem # Undefined /\ existingItem.id # id

GetItem(s, id) ==
    LET user == deserializeUser(s)
        route == "GET /api/items/:id"
    IN  /\ Quiet
        /\ Middleware(user, route) = PassOn
        /\ resp' = IF getItem(id) = Undefined
                   THEN Response(s, route, [id |-> id], user, 404, TRUE,
                                 [message |-> "Item not found"])
                   ELSE Response(s, route, [id |-> id], user, 200, TRUE, getItem(id))
        /\ UNCHANGED <<store, now, sessions, procs, receipts>>

PostItems(s, body) ==
    LET reqUser == deserializeUser(s)
        route == "POST /api/items"
        itemData == Pick(body, ItemColumns)
        item == createItem(itemData)
    IN  /\ Quiet
        /\ Middleware(reqUser, route) = PassOn
        /\ IF ~insertItemSchemaOk(body)
           THEN /\ resp' = Response(s, route, [body |-> body], reqUser, 400, TRUE,
                                    [message |-> "Invalid item data"])
                /\ UNCHANGED store
           ELSE IF SkuTaken(itemData)
           THEN /\ resp' = Response(s, route, [body |-> body], reqUser, 400, TRUE,
                                    [message |-> "SKU already exists in this organization"])
                /\ UNCHANGED store
           ELSE /\ LogRoom(1)
                /\ items' = MapSet(items, currentIds.item, item)
                /\ activityLogs' = createActivityLogs(
                       <<[userId |-> reqUser.id, action |-> "create",
                          entityType |-> "item",
                          entityId |-> IdToString(item.id),
                          details |-> [sku |-> item.sku, name |-> item.name],
                          organizationId |-> item.organizationId]>>)
                /\ currentIds' = [currentIds EXCEPT !.item = @ + 1,
                                                    !.activityLog = @ + 1]
                /\ resp' = Response(s, route, [body |-> body], reqUser, 201, TRUE, item)
                /\ UNCHANGED <<users, roles, inventory, inventoryTransactions,
                               orders, orderItems>>
        /\ UNCHANGED <<shipments, tables, now, sessions, procs, receipts>>

PatchItems(s, id, body) ==
    LET reqUser == deserializeUser(s)
        route == "PATCH /api/items/:id"
        currentItem == getItem(id)
        updatedItem == updateItem(id, body)
    IN  /\ Quiet
        /\ Middleware(reqUser, route) = PassOn
        /\ IF currentItem = Undefined
           THEN /\ resp' = Response(s, route, [id |-> id, body |-> body], reqUser,
                                    404, TRUE, [message |-> "Item not found"])
                /\ UNCHANGED store
           ELSE IF SkuClash(id, currentItem, body)
           THEN /\ resp' = Response(s, route, [id |-> id, body |-> body], reqUser,
                                    400, TRUE,
                                    [message |-> "SKU already exists in this organization"])
                /\ UNCHANGED store
           ELSE /\ LogRoom(1)
                /\ items' = MapSet(items, id, updatedItem)
                /\ activityLogs' = createActivityLogs(
                       <<[userId |-> reqUser.id, action |-> "update",
                          entityType |-> "item",
                          entityId |-> IdToString(id),
                          details |-> [sku |-> updatedItem.sku,
                                       name |-> updatedItem.name],
                          organizationId |-> updatedItem.organizationId]>>)
                /\ currentIds' = [currentIds EXCEPT !.activityLog = @ + 1]
                /\ resp' = Response(s, route, [id |-> id, body |-> body], reqUser,
                                    200, TRUE, updatedItem)
                /\ UNCHANGED <<users, roles, inventory, inventoryTransactions,
                               orders, orderItems>>
        /\ UNCHANGED <<shipments, tables, now, sessions, procs, receipts>>

---------------------------------------------------------------------------
(* /api/orders *)

\* most line items a POST /api/orders body carries
MaxLines == 2

OrderNumbers == {"SO-1", "SO-2"}

\* the i-th line item of a request
LineItem(i) ==
    IF i = 2 THEN [itemId |-> 2, quantity |-> 1, orderId |-> 9, id |-> 9]
    ELSE [itemId |-> i, quantity |-> 1]

\* req.body.items: for each length up to MaxLines, one list of line items
LineItemLists == {[i \in 1 .. n |-> LineItem(i)] : n \in 0 .. MaxLines}

OrderBase ==
    [orderNumber : OrderNumbers, customerName : {"Ann"},
     shippingAddress : {"1 Dock Rd"}, organizationId : Orgs, createdBy : {7}]

\* POST /api/orders bodies: with and without items; the last one fails
\* insertOrderSchema (no customerName, shippingAddress, organizationId, createdBy)
OrderBodies ==
    OrderBase
        \cup {Merge(b, [items |-> l]) : b \in OrderBase, l \in LineItemLists}
        \cup {[orderNumber |-> "SO-1", items |-> <<LineItem(1)>>]}

\* PATCH /api/orders/:id bodies
OrderPatches ==
    [orderNumber : OrderNumbers] \cup [organizationId : Orgs]
        \cup [status : {"pending", "shipped", ""}]

OrderColumns == {"orderNumber", "customerName", "customerEmail", "shippingAddress",
                 "status", "notes", "organizationId", "createdBy"}

insertOrderSchemaOk(body) ==
    {"orderNumber", "customerName", "shippingAddress", "organizationId",
     "createdBy"} \subseteq DOMAIN body

getOrder(id) == MapGet(orders, id)

getOrderByNumber(orderNumber, organizationId) ==
    Find(orders, {k \in DOMAIN orders :
                     /\ orders[k].orderNumber = orderNumber
                     /\ orders[k].organizationId = organizationId})

createOrder(order) ==
    Merge(order, [id |-> currentIds.order, createdAt |-> now, updatedAt |-> now])

\* an update method with a transition table: a canceled order stays canceled
updateOrderGuarded(id, orderData) ==
    IF Has(orders[id], "status") /\ orders[id].status = "canceled"
    THEN Merge(Merge(orders[id], Omit(orderData, {"status"})), [updatedAt |-> now])
    ELSE Merge(Merge(orders[id], orderData), [updatedAt |-> now])

updateOrder(id, orderData) == Merge(Merge(orders[id], orderData), [updatedAt |-> now])

\* the uniqueness pre-check of POST /api/orders
OrderNumberTaken(orderData) ==
    getOrderByNumber(orderData.orderNumber, orderData.organizationId) # Undefined

\* req.body.items || []
RequestItems(body) == IF Has(body, "items") THEN body.items ELSE << >>

createOrderItemSameId(orderItem, k) == Merge(orderItem, [id |-> currentIds.orderItem])

\* the record the k-th createOrderItem call of one request stores
createOrderItem(orderItem, k) == Merge(orderItem, [id |-> currentIds.orderItem + k - 1])

\* the order items POST /api/orders creates, in order, for the order just created
NewOrderItems(order, reqItems) ==
    [k \in 1 .. Len(reqItems) |->
        createOrderItem(
            Merge(Merge([orderId |-> order.id],
                        Merge(Opt("itemId", reqItems[k], "itemId"),
                              Opt("quantity", reqItems[k], "quantity"))),
                  [allocatedQuantity |-> 0, pickedQuantity |-> 0,
                   status |-> "pending"]),
            k)]

PostOrders(s, body) ==
    LET reqUser == deserializeUser(s)
        route == "POST /api/orders"
        orderData == Pick(body, OrderColumns)
        reqItems == RequestItems(body)
        order == createOrder(Merge(orderData, [createdBy |-> reqUser.id]))
        \* item.itemId throws on a null line item: the loop stops there and
        \* the catch block answers 500
        thrown == {k \in DOMAIN reqItems : reqItems[k] = Null}
        reached == IF thrown = {} THEN reqItems
                   ELSE SubSeq(reqItems, 1, MinOf(thrown) - 1)
        newItems == NewOrderItems(order, reached)
    IN  /\ Quiet
        /\ Middleware(reqUser, route) = PassOn
        /\ IF ~insertOrderSchemaOk(body)
           THEN /\ resp' = Response(s, route, [body |-> body], reqUser, 400, TRUE,
                                    [message |-> "Invalid order data"])
                /\ UNCHANGED store
           ELSE IF OrderNumberTaken(orderData)
           THEN /\ resp' = Response(s, route, [body |-> body], reqUser, 400, TRUE,
                                    [message |-> "Order number already exists"])
                /\ UNCHANGED store
           ELSE /\ LogRoom(1)
                /\ orders' = MapSet(orders, currentIds.order, order)
                /\ orderItems' =
                       [k \in DOMAIN orderItems \cup {newItems[j].id : j \in DOMAIN newItems} |->
                           IF k \in DOMAIN orderItems THEN orderItems[k]
                           ELSE newItems[k - currentIds.orderItem + 1]]
                /\ IF thrown = {}
                   THEN /\ activityLogs' = createActivityLogs(
                               <<[userId |-> reqUser.id, action |-> "create",
                                  entityType |-> "order",
                                  entityId |-> IdToString(order.id),
                                  details |-> [orderNumber |-> order.orderNumber,
                                               customerName |-> order.customerName],
                                  organizationId |-> order.organizationId]>>)
                        /\ currentIds' =
                               [currentIds EXCEPT !.order = @ + 1,
                                                  !.orderItem = @ + Len(reached),
                                                  !.activityLog = @ + 1]
                        /\ resp' = Response(s, route, [body |-> body], reqUser, 201,
                                            TRUE, Merge(order, [items |-> newItems]))
                   ELSE /\ currentIds' =
                               [currentIds EXCEPT !.order = @ + 1,
                                                  !.orderItem = @ + Len(reached)]
                        /\ resp' = Response(s, route, [body |-> body], reqUser, 500,
                                            TRUE, [message |-> "Failed to create order"])
                        /\ UNCHANGED activityLogs
                /\ UNCHANGED <<users, roles, items, inventory, inventoryTransactions>>
        /\ UNCHANGED <<shipments, tables, now, sessions, procs, receipts>>

\* the activity-log entries PATCH /api/orders/:id writes, in order
OrderUpdateLogs(reqUser, id, currentOrder, updatedOrder, body) ==
    LET statusChanged ==
            /\ TruthyString(body, "status")
            /\ ~(Has(currentOrder, "status") /\ currentOrder.status = body.status)
        statusLog ==
            [userId |-> reqUser.id, action |-> "status_change",
             entityType |-> "order", entityId |-> IdToString(id),
             details |-> Merge([orderNumber |-> updatedOrder.orderNumber,
                                newStatus |-> body.status],
                               Opt("previousStatus", currentOrder, "status")),
             organizationId |-> updatedOrder.organizationId]
        updateLog ==
            [userId |-> reqUser.id, action |-> "update",
             entityType |-> "order", entityId |-> IdToString(id),
             details |-> [orderNumber |-> updatedOrder.orderNumber],
             organizationId |-> updatedOrder.organizationId]
    IN  IF statusChanged THEN <<statusLog, updateLog>> ELSE <<updateLog>>

PatchOrders(s, id, body) ==
    LET reqUser == deserializeUser(s)
        route == "PATCH /api/orders/:id"
        currentOrder == getOrder(id)
        updatedOrder == updateOrder(id, body)
        logs == OrderUpdateLogs(reqUser, id, currentOrder, updatedOrder, body)
    IN  /\ Quiet
        /\ Middleware(reqUser, route) = PassOn
        /\ IF currentOrder = Undefined
           THEN /\ resp' = Response(s, route, [id |-> id, body |-> body], reqUser,
                                    404, TRUE, [message |-> "Order not found"])
                /\ UNCHANGED store
           ELSE /\ LogRoom(Len(logs))
                /\ orders' = MapSet(orders, id, updatedOrder)
                /\ activityLogs' = createActivityLogs(logs)
                /\ currentIds' = [currentIds EXCEPT !.activityLog = @ + Len(logs)]
                /\ resp' = Response(s, route, [id |-> id, body |-> body], reqUser,
                                    200, TRUE, updatedOrder)
                /\ UNCHANGED <<users, roles, items, inventory, inventoryTransactions,
                               orderItems>>
        /\ UNCHANGED <<shipments, tables, now, sessions, procs, receipts>>

\* listOrderItems(orderId): the order items of the order, in insertion order
listOrderItems(orderId) ==
    SelectSeq(orderItems, LAMBDA orderItem :
                              Has(orderItem, "orderId") /\ orderItem.orderId = orderId)

\* GET /api/orders/:id: the order with its order items, each with its item
GetOrder(s, id) ==
    LET user == deserializeUser(s)
        route == "GET /api/orders/:id"
        order == getOrder(id)
        found == listOrderItems(id)
        productItem(orderItem) ==
            IF Has(orderItem, "itemId") THEN getItem(orderItem.itemId) ELSE Undefined
        expandedOrderItems ==
            [k \in DOMAIN found |->
                IF productItem(found[k]) = Undefined THEN found[k]
                ELSE Merge(found[k], [item |-> productItem(found[k])])]
    IN  /\ Quiet
        /\ Middleware(user, route) = PassOn
        /\ resp' = IF order = Undefined
                   THEN Response(s, route, [id |-> id], user, 404, TRUE,
                                 [message |-> "Order not found"])
                   ELSE Response(s, route, [id |-> id], user, 200, TRUE,
                                 Merge(order, [items |-> expandedOrderItems]))
        /\ UNCHANGED <<store, now, sessions, procs, receipts>>

updateOrderItem(id, orderItemData) == Merge(orderItems[id], orderItemData)

\* PATCH /api/order-items/:id
PatchOrderItems(s, id, body) ==
    LET reqUser == deserializeUser(s)
        route == "PATCH /api/order-items/:id"
        orderItem == updateOrderItem(id, body)
        order == IF Has(orderItem, "orderId") THEN getOrder(orderItem.orderId)
                 ELSE Undefined
    IN  /\ Quiet
        /\ Middleware(reqUser, route) = PassOn
        /\ IF id \notin DOMAIN orderItems
           THEN /\ resp' = Response(s, route, [id |-> id, body |-> body], reqUser,
                                    404, TRUE, [message |-> "Order item not found"])
                /\ UNCHANGED store
           ELSE /\ LogRoom(1)
                /\ orderItems' = MapSet(orderItems, id, orderItem)
                /\ activityLogs' = createActivityLogs(
                       <<Merge([userId |-> reqUser.id, action |-> "update",
                                entityType |-> "orderItem",
                                entityId |-> IdToString(id),
                                details |-> Pick(orderItem,
                                                 {"orderId", "itemId", "status"})],
                               Opt("organizationId", order, "organizationId"))>>)
                /\ currentIds' = [currentIds EXCEPT !.activityLog = @ + 1]
                /\ resp' = Response(s, route, [id |-> id, body |-> body], reqUser,
                                    200, TRUE, orderItem)
                /\ UNCHANGED <<users, roles, items, inventory, inventoryTransactions,
                               orders, shipments, tables>>
        /\ UNCHANGED <<now, sessions, procs, receipts>>

---------------------------------------------------------------------------
(* /api/shipments *)

ShipmentColumns == {"orderId", "carrier", "trackingNumber", "shippingCost", "weight",
                    "dimensions", "labelUrl", "status", "createdBy"}

insertShipmentSchemaOk(body) == {"orderId", "carrier", "createdBy"} \subseteq DOMAIN body

getShipment(id) == MapGet(shipments, id)

createShipmentNoStamp(shipment) == Merge(shipment, [id |-> currentIds.shipment])

createShipment(shipment) ==
    Merge(shipment, [id |-> currentIds.shipment, createdAt |-> now])

updateShipment(id, shipmentData) == Merge(shipments[id], shipmentData)

\* GET /api/shipments/:id: the shipment with its order
GetShipment(s, id) ==
    LET user == deserializeUser(s)
        route == "GET /api/shipments/:id"
        shipment == getShipment(id)
        order == IF Has(shipment, "orderId") THEN getOrder(shipment.orderId)
                 ELSE Undefined
    IN  /\ Quiet
        /\ Middleware(user, route) = PassOn
        /\ resp' = IF shipment = Undefined
                   THEN Response(s, route, [id |-> id], user, 404, TRUE,
                                 [message |-> "Shipment not found"])
                   ELSE Response(s, route, [id |-> id], user, 200, TRUE,
                                 IF order = Undefined THEN shipment
                                 ELSE Merge(shipment, [order |-> order]))
        /\ UNCHANGED <<store, now, sessions, procs, receipts>>

\* req.body.updateOrderStatus && order, and updateOrder(order.id, ...) finds
\* a record under order.id
ShipsOrder(body, order) ==
    /\ TruthyFlag(body, "updateOrderStatus")
    /\ order # Undefined
    /\ order.id \in DOMAIN orders

\* POST /api/shipments
PostShipments(s, body) ==
    LET reqUser == deserializeUser(s)
        route == "POST /api/shipments"
        shipmentData == Pick(body, ShipmentColumns)
        shipment == createShipment(Merge(shipmentData, [createdBy |-> reqUser.id]))
        order == getOrder(shipment.orderId)
    IN  /\ Quiet
        /\ Middleware(reqUser, route) = PassOn
        /\ IF ~insertShipmentSchemaOk(body)
           THEN /\ resp' = Response(s, route, [body |-> body], reqUser, 400, TRUE,
                                    [message |-> "Invalid shipment data"])
                /\ UNCHANGED store
           ELSE /\ LogRoom(1)
                /\ shipments' = MapSet(shipments, shipment.id, shipment)
                /\ orders' = IF ShipsOrder(body, order)
                             THEN MapSet(orders, order.id,
                                         updateOrder(order.id, [status |-> "shipped"]))
                             ELSE orders
                /\ activityLogs' = createActivityLogs(
                       <<Merge([userId |-> reqUser.id, action |-> "create",
                                entityType |-> "shipment",
                                entityId |-> IdToString(shipment.id),
                                details |-> Pick(shipment, {"orderId", "carrier",
                                                            "trackingNumber"})],
                               Opt("organizationId", order, "organizationId"))>>)
                /\ currentIds' = [currentIds EXCEPT !.shipment = @ + 1,
                                                    !.activityLog = @ + 1]
                /\ resp' = Response(s, route, [body |-> body], reqUser, 201, TRUE,
                                    shipment)
                /\ UNCHANGED <<users, roles, items, inventory, inventoryTransactions,
                               orderItems, tables>>
        /\ UNCHANGED <<now, sessions, procs, receipts>>

\* PATCH /api/shipments/:id
PatchShipments(s, id, body) ==
    LET reqUser == deserializeUser(s)
        route == "PATCH /api/shipments/:id"
        updatedShipment == updateShipment(id, body)
        order == IF Has(updatedShipment, "orderId")
                 THEN getOrder(updatedShipment.orderId) ELSE Undefined
    IN  /\ Quiet
        /\ Middleware(reqUser, route) = PassOn
        /\ IF getShipment(id) = Undefined
           THEN /\ resp' = Response(s, route, [id |-> id, body |-> body], reqUser,
                                    404, TRUE, [message |-> "Shipment not found"])
                /\ UNCHANGED store
           ELSE /\ LogRoom(1)
                /\ shipments' = MapSet(shipments, id, updatedShipment)
                /\ activityLogs' = createActivityLogs(
                       <<Merge([userId |-> reqUser.id, action |-> "update",
                                entityType |-> "shipment",
                                entityId |-> IdToString(id),
                                details |-> Pick(updatedShipment,
                                                 {"orderId", "status"})],
                               Opt("organizationId", order, "organizationId"))>>)
                /\ currentIds' = [currentIds EXCEPT !.activityLog = @ + 1]
                /\ resp' = Response(s, route, [id |-> id, body |-> body], reqUser,
                                    200, TRUE, updatedShipment)
                /\ UNCHANGED <<users, roles, items, inventory, inventoryTransactions,
                               orders, orderItems, tables>>
        /\ UNCHANGED <<now, sessions, procs, receipts>>

---------------------------------------------------------------------------
(* /api/inventory: POST, one action per stretch between two awaits *)

Quantities == 1 .. MaxQty

\* POST /api/inventory bodies: quantity and allocatedQuantity have column
\* defaults and may be left out; the last one fails insertInventorySchema
InventoryBodies ==
    [itemId : {1, 2}, binId : {1}, quantity : Quantities]
        \cup [itemId : {1}, binId : {1}, quantity : Quantities,
              allocatedQuantity : {1}]
        \cup {[itemId |-> 1, binId |-> 1], [itemId |-> 1]}

\* the bodies that carry both quantities
FullInventoryBodies ==
    [itemId : {1}, binId : {1}, quantity : Quantities, allocatedQuantity : {0}]

InventoryColumns == {"itemId", "binId", "quantity", "allocatedQuantity"}

insertInventorySchemaOk(body) == {"itemId", "binId"} \subseteq DOMAIN body

getInventory(itemId, binId) ==
    Find(inventory, {k \in DOMAIN inventory :
                        inventory[k].itemId = itemId /\ inventory[k].binId = binId})

createInventory(inv) == Merge(inv, [id |-> currentIds.inventory])

updateInventoryStoredWins(id, inventoryData) ==
    IF id \in DOMAIN inventory THEN Merge(inventoryData, inventory[id]) ELSE Undefined

\* Undefined when no row is stored under id
updateInventory(id, inventoryData) ==
    IF id \in DOMAIN inventory THEN Merge(inventory[id], inventoryData) ELSE Undefined

createInventoryTransactionSameId(transaction) == Merge(transaction, [id |-> 1])

createInventoryTransaction(transaction) ==
    Merge(transaction, [id |-> currentIds.inventoryTransaction])

ReceiveInventoryAlwaysCreate(existingInventory, inventoryData) ==
    [created |-> TRUE, record |-> createInventory(inventoryData)]

\* the if (existingInventory) ... else ... of POST /api/inventory: whether a
\* row is created, and the row written
ReceiveInventory(existingInventory, inventoryData) ==
    IF existingInventory # Undefined
    THEN [created |-> FALSE,
          record |-> updateInventory(existingInventory.id,
              [quantity |-> JsAdd(ToNumber(existingInventory, "quantity"),
                                  ToNumber(inventoryData, "quantity")),
               allocatedQuantity |->
                   JsAdd(ToNumber(existingInventory, "allocatedQuantity"),
                         OrZero(inventoryData, "allocatedQuantity"))])]
    ELSE [created |-> TRUE, record |-> createInventory(inventoryData)]

InFlight == {p \in Procs : procs[p].pc # "idle"}

\* parse the body, then await storage.getInventory(...)
InvStart(p, s, body) ==
    LET reqUser == deserializeUser(s)
        route == "POST /api/inventory"
        inventoryData == Pick(body, InventoryColumns)
    IN  /\ procs[p].pc = "idle"
        /\ Middleware(reqUser, route) = PassOn
        /\ IF ~insertInventorySchemaOk(body)
           THEN /\ resp' = Response(s, route, [body |-> body], reqUser, 400, TRUE,
                                    [message |-> "Invalid inventory data"])
                /\ UNCHANGED procs
           ELSE /\ LogRoom(1 + Cardinality(InFlight))
                /\ procs' = [procs EXCEPT ![p] =
                       [pc |-> "write", session |-> s, reqUser |-> reqUser,
                        body |-> body, inventoryData |-> inventoryData,
                        existingInventory |->
                            getInventory(inventoryData.itemId, inventoryData.binId)]]
                /\ UNCHANGED resp
        /\ UNCHANGED <<store, now, sessions, receipts>>

\* await storage.updateInventory(...) or await storage.createInventory(...)
InvWrite(p) ==
    LET w == ReceiveInventory(procs[p].existingInventory, procs[p].inventoryData)
    IN  /\ procs[p].pc = "write"
        /\ IF w.created
           THEN /\ inventory' = MapSet(inventory, currentIds.inventory, w.record)
                /\ currentIds' = [currentIds EXCEPT !.inventory = @ + 1]
           ELSE /\ inventory' = IF w.record = Undefined THEN inventory
                                ELSE MapSet(inventory, procs[p].existingInventory.id,
                                            w.record)
                /\ UNCHANGED currentIds
        /\ procs' = [procs EXCEPT ![p] =
               Merge(procs[p], [pc |-> "context", inventory |-> w.record])]
        /\ UNCHANGED <<users, roles, items, inventoryTransactions, orders,
                       orderItems, activityLogs, shipments, tables, now, sessions,
                       resp, receipts>>

\* await storage.getItem(...), await storage.getBin(...)
InvContext(p) ==
    /\ procs[p].pc = "context"
    /\ procs' = [procs EXCEPT ![p] =
           Merge(procs[p], [pc |-> "transaction",
                            item |-> getItem(procs[p].inventoryData.itemId),
                            bin |-> MapGet(tables.bins, procs[p].inventoryData.binId)])]
    /\ UNCHANGED <<store, now, sessions, resp, receipts>>

\* await storage.createInventoryTransaction(...)
InvTransaction(p) ==
    LET d == procs[p].inventoryData
        tx == createInventoryTransaction(
                  Merge(Merge([itemId |-> d.itemId, binId |-> d.binId,
                               type |-> "receiving",
                               createdBy |-> procs[p].reqUser.id,
                               timestamp |-> now],
                              Opt("quantity", d, "quantity")),
                        Pick(procs[p].body, {"reference", "notes"})))
    IN  /\ procs[p].pc = "transaction"
        /\ inventoryTransactions' = MapSet(inventoryTransactions, tx.id, tx)
        /\ currentIds' = [currentIds EXCEPT !.inventoryTransaction = @ + 1]
        /\ procs' = [procs EXCEPT ![p] = Merge(procs[p], [pc |-> "log"])]
        /\ UNCHANGED <<users, roles, items, inventory, orders, orderItems,
                       activityLogs, shipments, tables, now, sessions, resp,
                       receipts>>

\* await storage.createActivityLog(...), then res.status(201).json(inventory);
\* inventory.id throws when updateInventory found no row under
\* existingInventory.id, and the catch block answers 500
InvLog(p) ==
    LET d == procs[p].inventoryData
        item == procs[p].item
    IN  /\ procs[p].pc = "log"
        /\ IF procs[p].inventory = Undefined
           THEN /\ resp' = Response(procs[p].session, "POST /api/inventory",
                                    [body |-> procs[p].body], procs[p].reqUser, 500,
                                    TRUE, [message |-> "Failed to create inventory"])
                /\ UNCHANGED <<activityLogs, currentIds, receipts>>
           ELSE /\ activityLogs' = createActivityLogs(
                       <<Merge([userId |-> procs[p].reqUser.id, action |-> "create",
                                entityType |-> "inventory",
                                entityId |-> IdToString(procs[p].inventory.id),
                                details |->
                                    Merge(Merge(Merge([itemId |-> d.itemId,
                                                       binId |-> d.binId],
                                                      Opt("quantity", d, "quantity")),
                                                Opt("itemSku", item, "sku")),
                                          Opt("binCode", procs[p].bin, "code"))],
                               Opt("organizationId", item, "organizationId"))>>)
                /\ currentIds' = [currentIds EXCEPT !.activityLog = @ + 1]
                /\ resp' = Response(procs[p].session, "POST /api/inventory",
                                    [body |-> procs[p].body], procs[p].reqUser, 201,
                                    TRUE, procs[p].inventory)
                /\ receipts' = Append(receipts, d)
        /\ procs' = [procs EXCEPT ![p] = IdleProc]
        /\ UNCHANGED <<users, roles, items, inventory, inventoryTransactions,
                       orders, orderItems, shipments, tables, now, sessions>>

\* PATCH /api/inventory/:id: updateInventory returns the row as updated, and the
\* transaction and the log entry are computed from that row
PatchInventory(s, id, body) ==
    LET reqUser == deserializeUser(s)
        route == "PATCH /api/inventory/:id"
        currentInventory == updateInventory(id, body)
        item == IF Has(currentInventory, "itemId")
                THEN getItem(currentInventory.itemId) ELSE Undefined
        quantityGiven == Has(body, "quantity")
        tx == createInventoryTransaction(
                  Merge(Merge(Pick(currentInventory, {"itemId", "binId"}),
                              [quantity |->
                                   JsSub(body.quantity,
                                         JsSub(ToNumber(currentInventory, "quantity"),
                                               body.quantity)),
                               type |-> "adjustment", createdBy |-> reqUser.id,
                               timestamp |-> now]),
                        Pick(body, {"reference", "notes"})))
    IN  /\ Quiet
        /\ Middleware(reqUser, route) = PassOn
        /\ IF currentInventory = Undefined
           THEN /\ resp' = Response(s, route, [id |-> id, body |-> body], reqUser,
                                    404, TRUE,
                                    [message |-> "Inventory record not found"])
                /\ UNCHANGED store
           ELSE /\ LogRoom(1)
                /\ inventory' = MapSet(inventory, id, currentInventory)
                /\ inventoryTransactions' =
                       IF quantityGiven
                       THEN MapSet(inventoryTransactions, tx.id, tx)
                       ELSE inventoryTransactions
                /\ activityLogs' = createActivityLogs(
                       <<Merge([userId |-> reqUser.id, action |-> "update",
                                entityType |-> "inventory",
                                entityId |-> IdToString(id),
                                details |->
                                    Merge(Merge(Pick(currentInventory,
                                                     {"itemId", "binId"}),
                                                [quantityChange |->
                                                    IF quantityGiven
                                                    THEN JsSub(body.quantity,
                                                               ToNumber(currentInventory,
                                                                        "quantity"))
                                                    ELSE 0]),
                                          Opt("itemSku", item, "sku"))],
                               Opt("organizationId", item, "organizationId"))>>)
                /\ currentIds' =
                       [currentIds EXCEPT
                           !.inventoryTransaction = IF quantityGiven THEN @ + 1 ELSE @,
                           !.activityLog = @ + 1]
                /\ resp' = Response(s, route, [id |-> id, body |-> body], reqUser,
                                    200, TRUE, currentInventory)
                /\ UNCHANGED <<users, roles, items, orders, orderItems, shipments,
                               tables>>
        /\ UNCHANGED <<now, sessions, procs, receipts>>

---------------------------------------------------------------------------
(* /api/reports *)

\* a `"${value}"` cell and a `${value}` cell of a CSV row; a value that is
\* undefined is printed as the text undefined
Quoted(value) == [quoted |-> value]

Bare(obj, f) == IF Has(obj, f) THEN [number |-> obj[f]] ELSE [text |-> "undefined"]

\* record?.name || ''
NameOrEmpty(record) == IF Has(record, "name") THEN record.name ELSE ""

CsvHeader ==
    <<"SKU", "Name", "Category", "Warehouse", "Zone", "Bin", "Quantity", "Allocated",
      "Available">>

\* the row of an inventory record whose item and bin exist
CsvRow(inv) ==
    LET item == getItem(inv.itemId)
        bin == getEntity("bins", inv.binId)
        zone == IF Has(bin, "zoneId") THEN getEntity("zones", bin.zoneId)
                ELSE Undefined
        warehouse == IF Has(zone, "warehouseId")
                     THEN getEntity("warehouses", zone.warehouseId) ELSE Undefined
        category == IF Has(item, "categoryId") /\ item.categoryId # 0
                    THEN getEntity("categories", item.categoryId) ELSE Undefined
    IN  <<Quoted(item.sku), Quoted(item.name), Quoted(NameOrEmpty(category)),
          Quoted(NameOrEmpty(warehouse)), Quoted(NameOrEmpty(zone)), Quoted(bin.code),
          Bare(inv, "quantity"), Bare(inv, "allocatedQuantity"),
          [number |-> JsSub(ToNumber(inv, "quantity"),
                            ToNumber(inv, "allocatedQuantity"))]>>

CsvIncludesAnyOrganization(inv, organizationId) ==
    /\ getItem(inv.itemId) # Undefined
    /\ getEntity("bins", inv.binId) # Undefined

\* the loop's two continue statements: item and bin exist, and the item is of
\* the requested organization
CsvIncludes(inv, organizationId) ==
    /\ getItem(inv.itemId) # Undefined
    /\ getEntity("bins", inv.binId) # Undefined
    /\ Has(getItem(inv.itemId), "organizationId")
    /\ getItem(inv.itemId).organizationId = organizationId

\* GET /api/reports/inventory-csv?organizationId=...: the document, line by line
GetInventoryCsv(s, organizationId) ==
    LET user == deserializeUser(s)
        route == "GET /api/reports/inventory-csv"
        included == SelectSeq(inventory, LAMBDA inv : CsvIncludes(inv, organizationId))
        csvData == <<CsvHeader>> \o [i \in 1 .. Len(included) |-> CsvRow(included[i])]
    IN  /\ Quiet
        /\ Middleware(user, route) = PassOn
        /\ resp' = IF organizationId = NaN
                   THEN Response(s, route, [organizationId |-> organizationId], user,
                                 400, TRUE, [message |-> "Organization ID is required"])
                   ELSE Response(s, route, [organizationId |-> organizationId], user,
                                 200, TRUE, csvData)
        /\ UNCHANGED <<store, now, sessions, procs, receipts>>

\* time passes between two requests
Tick ==
    /\ Quiet
    /\ now < MaxTime
    /\ now' = now + 1
    /\ UNCHANGED <<store, sessions, resp, procs, receipts>>

InvStep(p) == InvWrite(p) \/ InvContext(p) \/ InvTransaction(p) \/ InvLog(p)

---------------------------------------------------------------------------
(* Specifications *)

AdminLogin == {<<"admin", "password">>}

LoginInputs == {<<"admin", "password">>, <<"admin", "pw">>, <<"bob", "pw">>,
                <<"carol", "pw">>}

\* POST /api/users bodies of SpecGate: one new user, with each kind of role
GateUserBodies ==
    {b \in UserBodies : insertUserSchemaOk(b) /\ b.username = "bob"
                           /\ "organizationId" \notin DOMAIN b}

\* sessions and the permission gate, over every route of the route table
NextGate ==
    \/ \E s \in Sessions, c \in LoginInputs : Login(s, c[1], c[2])
    \/ \E s \in Sessions : Logout(s)
    \/ \E s \in Sessions : CurrentUser(s)
    \/ \E s \in Sessions, route \in Routes : Rejected(s, route)
    \/ \E s \in Sessions, o \in {0, 1} : GetUsers(s, o)
    \/ \E s \in Sessions, id \in {1, 2} : GetUser(s, id)
    \/ \E s \in Sessions, id \in {1} : GetItem(s, id)
    \/ \E s \in Sessions, body \in GateUserBodies : PostUsers(s, body)
    \/ \E s \in Sessions, body \in RoleBodies : PostRoles(s, body)
    \/ \E s \in Sessions, id \in {4, 9}, body \in RolePatches : PatchRoles(s, id, body)

SpecGate == Init /\ [][NextGate]_vars

\* create requests of every entity with a uniqueness pre-check
CreateUserBodies == UserBase \cup {[username |-> "admin", password |-> "pw"]}

CreateItemBodies == {b \in ItemBodies : b.sku = "A"}

CreateOrderBodies == {b \in OrderBodies : b.orderNumber = "SO-1"}

NextCreate ==
    \/ \E s \in Sessions, c \in AdminLogin : Login(s, c[1], c[2])
    \/ \E s \in Sessions, body \in CreateUserBodies : PostUsers(s, body)
    \/ \E s \in Sessions, body \in CreateItemBodies : PostItems(s, body)
    \/ \E s \in Sessions, body \in CreateOrderBodies : PostOrders(s, body)

SpecCreate == Init /\ [][NextCreate]_vars

\* user-create and user-update requests
NextUsers ==
    \/ \E s \in Sessions, c \in AdminLogin : Login(s, c[1], c[2])
    \/ \E s \in Sessions, body \in UserBodies : PostUsers(s, body)
    \/ \E s \in Sessions, id \in IdInputs, body \in UserPatches : PatchUsers(s, id, body)

SpecUsers == Init /\ [][NextUsers]_vars

\* item-create and item-update requests
NextItems ==
    \/ \E s \in Sessions, c \in AdminLogin : Login(s, c[1], c[2])
    \/ \E s \in Sessions, body \in ItemBodies : PostItems(s, body)
    \/ \E s \in Sessions, id \in IdInputs, body \in ItemPatches : PatchItems(s, id, body)

SpecItems == Init /\ [][NextItems]_vars

\* order-create and order-update requests
NextOrders ==
    \/ \E s \in Sessions, c \in AdminLogin : Login(s, c[1], c[2])
    \/ \E s \in Sessions, body \in OrderBase : PostOrders(s, body)
    \/ \E s \in Sessions, id \in IdInputs, body \in OrderPatches : PatchOrders(s, id, body)

SpecOrders == Init /\ [][NextOrders]_vars

\* POST /api/inventory requests that do not overlap: a request starts only
\* when none is in flight
NextInventory ==
    \/ \E s \in Sessions, c \in AdminLogin : Login(s, c[1], c[2])
    \/ \E s \in Sessions, body \in InventoryBodies : Quiet /\ InvStart(1, s, body)
    \/ InvStep(1)

SpecInventory == Init /\ [][NextInventory]_vars

\* POST /api/inventory requests that overlap: each await is a point where the
\* other request may run
NextInventoryOverlap ==
    \/ \E s \in Sessions, c \in AdminLogin : Login(s, c[1], c[2])
    \/ \E p \in Procs, s \in Sessions, body \in FullInventoryBodies \cup {[itemId |-> 1]} :
           InvStart(p, s, body)
    \/ \E p \in Procs : InvStep(p)

SpecInventoryOverlap == Init /\ [][NextInventoryOverlap]_vars

\* one valid create body per entity type; the warehouse body carries a field
\* that is no column, the order body a createdBy that is not the principal
EntityBodies ==
    [organizations |-> {[name |-> "Acme", parentId |-> 1]},
     warehouses |-> {[name |-> "Main", code |-> "W1", organizationId |-> 1,
                      extra |-> "x"]},
     zones |-> {[name |-> "Dock", code |-> "Z1", warehouseId |-> 1]},
     binTypes |-> {[name |-> "Shelf", organizationId |-> 1]},
     bins |-> {[name |-> "Bin 1", code |-> "B1", zoneId |-> 1]},
     categories |-> {[name |-> "Tools", organizationId |-> 1]},
     suppliers |-> {[name |-> "Supply Co", code |-> "S1", organizationId |-> 1]}]

ShipmentBodies ==
    [orderId : {1, 2}, carrier : {"UPS"}, createdBy : {7},
     updateOrderStatus : BOOLEAN]
        \cup [orderId : {1}, carrier : {"UPS"}, createdBy : {7}]
        \cup {[carrier |-> "UPS"]}

RoundTripUserBodies == {b \in UserBodies : Has(b, "organizationId")}

RoundTripRoleBodies == {b \in RoleBodies : Has(b, "name") /\ Has(b, "permissions")}

RoundTripItemBodies == {b \in ItemBodies : Has(b, "organizationId") /\ b.sku = "A"
                                               /\ b.organizationId = 1}

RoundTripOrderBodies ==
    {b \in OrderBodies : /\ insertOrderSchemaOk(b)
                         /\ b.orderNumber = "SO-1" /\ b.organizationId = 1
                         /\ Len(RequestItems(b)) = MaxLines}

RoundTripShipmentBodies ==
    {b \in ShipmentBodies : insertShipmentSchemaOk(b) /\ b.orderId = 1
                                /\ TruthyFlag(b, "updateOrderStatus")}

\* at most one request has written an activity-log entry
FewLogged == currentIds.activityLog <= 2

\* every create route that has a get-by-id route, each followed by a fetch
NextRoundTrip ==
    \/ \E s \in Sessions, c \in AdminLogin : Login(s, c[1], c[2])
    \/ Tick
    \/ \E s \in Sessions, body \in RoundTripUserBodies : FewLogged /\ PostUsers(s, body)
    \/ \E s \in Sessions, body \in RoundTripRoleBodies : FewLogged /\ PostRoles(s, body)
    \/ \E s \in Sessions, body \in RoundTripItemBodies : FewLogged /\ PostItems(s, body)
    \/ \E s \in Sessions, body \in RoundTripOrderBodies : FewLogged /\ PostOrders(s, body)
    \/ \E s \in Sessions, body \in RoundTripShipmentBodies :
           FewLogged /\ PostShipments(s, body)
    \/ \E s \in Sessions, kind \in EntityKinds :
           \E body \in EntityBodies[kind] : FewLogged /\ PostEntity(s, kind, body)
    \/ \E s \in Sessions, id \in {1, 2} : GetUser(s, id)
    \/ \E s \in Sessions, id \in {4, 5} : GetRole(s, id)
    \/ \E s \in Sessions, id \in {1, 2} : GetItem(s, id)
    \/ \E s \in Sessions, id \in {1, 2} : GetOrder(s, id)
    \/ \E s \in Sessions, id \in {1, 2} : GetShipment(s, id)
    \/ \E s \in Sessions, kind \in EntityKinds, id \in {1, 2} : GetEntity(s, kind, id)

SpecRoundTrip == Init /\ [][NextRoundTrip]_vars

\* PATCH payloads, one per update route; each leaves fields of the stored
\* record out
PatchBodies ==
    [users |-> {[fullName |-> "Root"]},
     roles |-> {[description |-> "d"]},
     items |-> {[name |-> "Gadget"]},
     orders |-> {[status |-> "shipped"]},
     orderItems |-> {[pickedQuantity |-> 1]},
     shipments |-> {[trackingNumber |-> "T1"]},
     inventory |-> {[quantity |-> 1]},
     entity |-> {[name |-> "Renamed"]}]

PatchOrderBodies ==
    {b \in OrderBodies : /\ insertOrderSchemaOk(b)
                         /\ b.orderNumber = "SO-1" /\ b.organizationId = 1
                         /\ Len(RequestItems(b)) = 1}

PatchShipmentBodies ==
    {b \in ShipmentBodies : insertShipmentSchemaOk(b) /\ b.orderId = 1
                                /\ ~Has(b, "updateOrderStatus")}

PatchInventoryBodies == {b \in FullInventoryBodies : b.quantity = MaxQty}

\* no request has written an activity-log entry yet
FirstLogged == currentIds.activityLog = 1

\* every update route, on the seeded records and on a record created first,
\* addressed by the ids of stored records; time passes between requests
NextPatch ==
    \/ \E s \in Sessions, c \in AdminLogin : Login(s, c[1], c[2])
    \/ Tick
    \/ \E s \in Sessions, body \in RoundTripItemBodies : FirstLogged /\ PostItems(s, body)
    \/ \E s \in Sessions, body \in PatchOrderBodies : FirstLogged /\ PostOrders(s, body)
    \/ \E s \in Sessions, body \in PatchShipmentBodies :
           FirstLogged /\ PostShipments(s, body)
    \/ \E s \in Sessions, kind \in EntityKinds :
           \E body \in EntityBodies[kind] : FirstLogged /\ PostEntity(s, kind, body)
    \/ \E s \in Sessions, body \in PatchInventoryBodies :
           Quiet /\ FirstLogged /\ InvStart(1, s, body)
    \/ InvStep(1)
    \/ \E s \in Sessions, id \in DOMAIN users, body \in PatchBodies.users :
           PatchUsers(s, id, body)
    \/ \E s \in Sessions, id \in {1}, body \in PatchBodies.roles :
           PatchRoles(s, id, body)
    \/ \E s \in Sessions, id \in DOMAIN items, body \in PatchBodies.items :
           PatchItems(s, id, body)
    \/ \E s \in Sessions, id \in DOMAIN orders, body \in PatchBodies.orders :
           PatchOrders(s, id, body)
    \/ \E s \in Sessions, id \in DOMAIN orderItems, body \in PatchBodies.orderItems :
           PatchOrderItems(s, id, body)
    \/ \E s \in Sessions, id \in DOMAIN shipments, body \in PatchBodies.shipments :
           PatchShipments(s, id, body)
    \/ \E s \in Sessions, id \in DOMAIN inventory, body \in PatchBodies.inventory :
           PatchInventory(s, id, body)
    \/ \E s \in Sessions, kind \in EntityKinds :
           \E id \in DOMAIN tables[kind], body \in PatchBodies.entity :
               PatchEntity(s, kind, id, body)

SpecPatch == Init /\ [][NextPatch]_vars

\* POST /api/users bodies of SpecSession: one new user, with a role and without
SessionUserBodies ==
    {b \in GateUserBodies : Has(b, "roleId") => b.roleId = 4}

\* PATCH /api/users/:id bodies of SpecSession: a new password, and an id
SessionUserPatches == [password : {"pw2"}] \cup [id : {2, 3}]

\* logins, logouts and requests of one session, while users are created and
\* updated
NextSession ==
    \/ \E s \in Sessions, c \in LoginInputs : Login(s, c[1], c[2])
    \/ \E s \in Sessions : Logout(s)
    \/ \E s \in Sessions : CurrentUser(s)
    \/ \E s \in Sessions, route \in Routes : Rejected(s, route)
    \/ \E s \in Sessions, id \in {1, 2} : GetUser(s, id)
    \/ \E s \in Sessions, body \in SessionUserBodies : PostUsers(s, body)
    \/ \E s \in Sessions, body \in SessionUserPatches : PatchUsers(s, 1, body)

SpecSession == Init /\ [][NextSession]_vars

\* a POST /api/orders body whose items hold a JSON null
NullItemOrderBodies ==
    {Merge(b, [items |-> <<Null>>]) :
         b \in {o \in OrderBase : o.orderNumber = "SO-1" /\ o.organizationId = 1}}

\* the requests of SpecPatch, and an order whose line item is null
NextAudit ==
    \/ NextPatch
    \/ \E s \in Sessions, body \in NullItemOrderBodies :
           currentIds.order = 1 /\ PostOrders(s, body)

SpecAudit == Init /\ [][NextAudit]_vars

\* two orders of one organization
ShipmentOrderBodies == {b \in OrderBase : b.organizationId = 1}

\* PATCH /api/orders/:id bodies of SpecShipments: a status, and an id
ShipmentOrderPatches == [status : {"pending"}] \cup [id : {2}]

\* orders are created and updated, and shipments are created for them, with
\* and without updateOrderStatus; time passes between requests
NextShipments ==
    \/ \E s \in Sessions, c \in AdminLogin : Login(s, c[1], c[2])
    \/ Tick
    \/ \E s \in Sessions, body \in ShipmentOrderBodies : LogRoom(2) /\ PostOrders(s, body)
    \/ \E s \in Sessions, body \in ShipmentOrderPatches : PatchOrders(s, 1, body)
    \/ \E s \in Sessions, body \in ShipmentBodies : PostShipments(s, body)

SpecShipments == Init /\ [][NextShipments]_vars

\* PATCH payloads that carry an id
IdPatches == [id : {2}]

\* every update route, on the seeded records and on a record created first,
\* with a payload that carries an id
NextIds ==
    \/ \E s \in Sessions, c \in AdminLogin : Login(s, c[1], c[2])
    \/ \E s \in Sessions, body \in RoundTripItemBodies : FirstLogged /\ PostItems(s, body)
    \/ \E s \in Sessions, body \in PatchOrderBodies : FirstLogged /\ PostOrders(s, body)
    \/ \E s \in Sessions, body \in PatchShipmentBodies :
           FirstLogged /\ PostShipments(s, body)
    \/ \E s \in Sessions, kind \in EntityKinds :
           \E body \in EntityBodies[kind] : FirstLogged /\ PostEntity(s, kind, body)
    \/ \E s \in Sessions, body \in PatchInventoryBodies :
           Quiet /\ FirstLogged /\ InvStart(1, s, body)
    \/ InvStep(1)
    \/ \E s \in Sessions, id \in DOMAIN users, body \in IdPatches : PatchUsers(s, id, body)
    \/ \E s \in Sessions, id \in {1}, body \in IdPatches : PatchRoles(s, id, body)
    \/ \E s \in Sessions, id \in DOMAIN items, body \in IdPatches : PatchItems(s, id, body)
    \/ \E s \in Sessions, id \in DOMAIN orders, body \in IdPatches : PatchOrders(s, id, body)
    \/ \E s \in Sessions, id \in DOMAIN orderItems, body \in IdPatches :
           PatchOrderItems(s, id, body)
    \/ \E s \in Sessions, id \in DOMAIN shipments, body \in IdPatches :
           PatchShipments(s, id, body)
    \/ \E s \in Sessions, id \in DOMAIN inventory, body \in IdPatches :
           PatchInventory(s, id, body)
    \/ \E s \in Sessions, kind \in EntityKinds :
           \E id \in DOMAIN tables[kind], body \in IdPatches :
               PatchEntity(s, kind, id, body)

SpecIds == Init /\ [][NextIds]_vars

\* an item of either organization, a bin, and inventory rows received before
\* and after their item and bin exist, with and without allocatedQuantity
CsvItemBodies == {b \in ItemBodies : Has(b, "organizationId") /\ b.sku = "A"}

CsvInventoryBodies ==
    {[itemId |-> 1, binId |-> 1, quantity |-> MaxQty, allocatedQuantity |-> 1],
     [itemId |-> 1, binId |-> 2, quantity |-> 1, allocatedQuantity |-> 0],
     [itemId |-> 1, binId |-> 1, quantity |-> 1]}

\* the organizationId of the query: an organization with and without items, and
\* none
CsvQueries == {1, 2, NaN}

NextCsv ==
    \/ \E s \in Sessions, c \in AdminLogin : Login(s, c[1], c[2])
    \/ \E s \in Sessions, body \in CsvItemBodies : PostItems(s, body)
    \/ \E s \in Sessions, body \in EntityBodies.bins : PostEntity(s, "bins", body)
    \/ \E s \in Sessions, body \in CsvInventoryBodies : Quiet /\ InvStart(1, s, body)
    \/ InvStep(1)
    \/ \E s \in Sessions, organizationId \in CsvQueries : GetInventoryCsv(s, organizationId)

SpecCsv == Init /\ [][NextCsv]_vars

\* bodies that a create route accepts and bodies that it answers with 400: a
\* missing required column, and a username, SKU or order number that is taken
ErrorUserBodies ==
    {b \in UserBodies : Has(b, "roleId") => b.roleId = 4 /\ ~Has(b, "organizationId")}

ErrorItemBodies == {b \in ItemBodies : b.sku = "A" /\ (Has(b, "organizationId") => b.organizationId = 1)}

ErrorOrderBodies ==
    {b \in OrderBodies : /\ b.orderNumber = "SO-1"
                         /\ Has(b, "organizationId") => b.organizationId = 1
                         /\ Len(RequestItems(b)) = 1}

ErrorEntityBodies == [kind \in EntityKinds |-> EntityBodies[kind] \cup {[code |-> "X"]}]

ErrorShipmentBodies == {b \in ShipmentBodies : ~Has(b, "updateOrderStatus")}

ErrorInventoryBodies == PatchInventoryBodies \cup {[itemId |-> 1]}

\* ids of update and get requests: a stored record and none
ErrorIds == {1, 3}

\* requests of the administrator and of a customer user to every create, update
\* and get-by-id route, with valid and invalid bodies and ids
\* the plain entity kinds the error requests go to
ErrorKinds == {"warehouses", "zones"}

NextErrors ==
    \/ \E s \in Sessions, c \in LoginInputs : Login(s, c[1], c[2])
    \/ \E s \in Sessions, route \in Routes : Rejected(s, route)
    \/ \E s \in Sessions, body \in ErrorUserBodies : FirstLogged /\ PostUsers(s, body)
    \/ \E s \in Sessions, body \in RoleBodies : FirstLogged /\ PostRoles(s, body)
    \/ \E s \in Sessions, body \in ErrorItemBodies : FirstLogged /\ PostItems(s, body)
    \/ \E s \in Sessions, body \in ErrorOrderBodies \cup NullItemOrderBodies :
           FirstLogged /\ currentIds.order <= 2 /\ PostOrders(s, body)
    \/ \E s \in Sessions, body \in ErrorShipmentBodies :
           FirstLogged /\ PostShipments(s, body)
    \/ \E s \in Sessions, kind \in ErrorKinds :
           \E body \in ErrorEntityBodies[kind] : FirstLogged /\ PostEntity(s, kind, body)
    \/ \E s \in Sessions, body \in ErrorInventoryBodies :
           Quiet /\ FirstLogged /\ InvStart(1, s, body)
    \/ InvStep(1)
    \/ \E s \in Sessions, id \in ErrorIds, body \in PatchBodies.users :
           FewLogged /\ PatchUsers(s, id, body)
    \/ \E s \in Sessions, id \in {1, 9}, body \in PatchBodies.roles :
           FewLogged /\ PatchRoles(s, id, body)
    \/ \E s \in Sessions, id \in ErrorIds, body \in PatchBodies.items \cup [sku : {"A"}] :
           FewLogged /\ PatchItems(s, id, body)
    \/ \E s \in Sessions, id \in ErrorIds, body \in PatchBodies.orders :
           FewLogged /\ PatchOrders(s, id, body)
    \/ \E s \in Sessions, id \in ErrorIds, body \in PatchBodies.orderItems :
           FewLogged /\ PatchOrderItems(s, id, body)
    \/ \E s \in Sessions, id \in ErrorIds, body \in PatchBodies.shipments :
           FewLogged /\ PatchShipments(s, id, body)
    \/ \E s \in Sessions, id \in ErrorIds, body \in PatchBodies.inventory :
           FewLogged /\ PatchInventory(s, id, body)
    \/ \E s \in Sessions, kind \in ErrorKinds, id \in ErrorIds,
          body \in PatchBodies.entity : FewLogged /\ PatchEntity(s, kind, id, body)
    \/ \E s \in Sessions, id \in ErrorIds : GetUser(s, id)
    \/ \E s \in Sessions, id \in {1, 9} : GetRole(s, id)
    \/ \E s \in Sessions, id \in ErrorIds : GetItem(s, id)
    \/ \E s \in Sessions, id \in ErrorIds : GetOrder(s, id)
    \/ \E s \in Sessions, id \in ErrorIds : GetShipment(s, id)
    \/ \E s \in Sessions, kind \in ErrorKinds, id \in ErrorIds : GetEntity(s, kind, id)
    \/ \E s \in Sessions, organizationId \in {NaN} : GetInventoryCsv(s, organizationId)

SpecErrors == Init /\ [][NextErrors]_vars

\* the status values the schema's comment documents, and one it does not
DocumentedStatuses == {"pending", "processing", "allocated", "packed", "shipped",
                       "delivered", "canceled"}

Statuses == DocumentedStatuses \cup {"returned"}

\* POST /api/orders bodies that create an order in each status
StatusOrderBodies ==
    {Merge(b, [status |-> st]) : b \in ShipmentOrderBodies, st \in Statuses}

\* one order is created in some status and its status is updated; a customer
\* user, who does not hold orders:update, asks too
NextStatus ==
    \/ \E s \in Sessions, c \in LoginInputs : Login(s, c[1], c[2])
    \/ \E s \in Sessions, body \in GateUserBodies : FirstLogged /\ PostUsers(s, body)
    \/ \E s \in Sessions, body \in StatusOrderBodies : FewLogged /\ PostOrders(s, body)
    \/ \E s \in Sessions, id \in DOMAIN orders, body \in [status : Statuses] :
           PatchOrders(s, id, body)
    \/ \E s \in Sessions : Rejected(s, "PATCH /api/orders/:id")

SpecStatus == Init /\ [][NextStatus]_vars

\* PATCH /api/inventory/:id bodies that set the quantity
LedgerPatches == [quantity : Quantities]

\* stock is received and adjusted, one request at a time
NextLedger ==
    \/ \E s \in Sessions, c \in AdminLogin : Login(s, c[1], c[2])
    \/ \E s \in Sessions, body \in FullInventoryBodies : Quiet /\ InvStart(1, s, body)
    \/ InvStep(1)
    \/ \E s \in Sessions, id \in DOMAIN inventory, body \in LedgerPatches :
           PatchInventory(s, id, body)

SpecLedger == Init /\ [][NextLedger]_vars

\* POST /api/users bodies of SpecTenant: a customer user of organization 2
TenantUserBodies ==
    {b \in UserBodies : /\ insertUserSchemaOk(b)
                        /\ Has(b, "roleId") /\ b.roleId = 4
                        /\ Has(b, "organizationId")}

\* POST /api/orders bodies of SpecTenant: orders of each organization
TenantOrderBodies == {b \in OrderBase : b.orderNumber = "SO-1"}

\* the administrator and a customer user create orders and fetch them by id
NextTenant ==
    \/ \E s \in Sessions, c \in LoginInputs : Login(s, c[1], c[2])
    \/ \E s \in Sessions, body \in TenantUserBodies : FirstLogged /\ PostUsers(s, body)
    \/ \E s \in Sessions, body \in TenantOrderBodies : PostOrders(s, body)
    \/ \E s \in Sessions, id \in IdInputs : GetOrder(s, id)
    \/ \E s \in Sessions : Rejected(s, "PATCH /api/orders/:id")

SpecTenant == Init /\ [][NextTenant]_vars

---------------------------------------------------------------------------
(* C1, C2: the permission gate *)

GuardedRoutes == {route \in Routes : RoutePermission(route) # NoPermission}

\* gate(R, P) of the specification
GateAllows(R, P) ==
    /\ R # Undefined
    /\ Has(R, "permissions")
    /\ ("all" \in R.permissions \/ P \in R.permissions)

\* C1: for an authenticated request to a route guarded by hasPermission(P), with
\* R the role attached to the principal, the handler runs iff R exists and
\* R.permissions holds "all" or exactly P; otherwise the answer is 403 and the
\* handler does not run.
C1_GateIffPermission ==
    (resp.route \in GuardedRoutes /\ resp.user # Undefined)
        => LET allowed == GateAllows(resp.user.role, RoutePermission(resp.route))
           IN  /\ resp.ran <=> allowed
               /\ ~allowed => resp.status = 403

\* a principal whose role exists but holds neither "all" nor the permission
\* ("org:all" is not "all") is refused with 403
C1_Witness ==
    /\ resp.route = "GET /api/users"
    /\ resp.user # Undefined
    /\ resp.user.role # Undefined
    /\ resp.user.role.permissions = {"org:all"}
    /\ resp.status = 403
    /\ ~resp.ran

\* C2: a request without an authenticated session to any route outside
\* /api/auth is answered 401, no handler runs, and the store (every map, every
\* id counter, the activity log) is left as it was.
C2_UnauthenticatedRejected ==
    [][(resp'.route \in Routes /\ resp'.user = Undefined)
           => (resp'.status = 401 /\ ~resp'.ran /\ UNCHANGED store)]_vars

\* after records were written and the session was cleared, a route that has no
\* hasPermission middleware answers 401
C2_Witness ==
    /\ resp.route = "GET /api/items/:id"
    /\ resp.user = Undefined
    /\ resp.status = 401
    /\ currentIds.activityLog > 1

---------------------------------------------------------------------------
(* C3 - C6, C10: uniqueness pre-checks and order creation *)

\* the unique key of a create request is already in the store
DuplicateKey(route, request) ==
    \/ /\ route = "POST /api/users"
       /\ Has(request.body, "username")
       /\ \E k \in DOMAIN users : users[k].username = request.body.username
    \/ /\ route = "POST /api/items"
       /\ {"sku", "organizationId"} \subseteq DOMAIN request.body
       /\ \E k \in DOMAIN items :
              /\ items[k].sku = request.body.sku
              /\ items[k].organizationId = request.body.organizationId
    \/ /\ route = "POST /api/orders"
       /\ {"orderNumber", "organizationId"} \subseteq DOMAIN request.body
       /\ \E k \in DOMAIN orders :
              /\ orders[k].orderNumber = request.body.orderNumber
              /\ orders[k].organizationId = request.body.organizationId

\* C3: a create request whose unique key (username; SKU or order number within
\* the organization) is already stored is answered 400 and changes nothing in
\* the store: no record, no order item, no activity-log entry, no id consumed.
C3_DuplicateKeyRejected ==
    [][(resp'.ran /\ DuplicateKey(resp'.route, resp'.request))
           => (resp'.status = 400 /\ UNCHANGED store)]_vars

\* a second order with a stored order number, carrying line items, is refused
\* and leaves no order item behind
C3_Witness ==
    /\ resp.route = "POST /api/orders"
    /\ resp.status = 400
    /\ resp.body.message = "Order number already exists"
    /\ Len(RequestItems(resp.request.body)) > 0
    /\ DOMAIN orders = {1}
    /\ orderItems = << >>

\* C4: no two stored users have the same username.
C4_UniqueUsernames ==
    \A a, b \in DOMAIN users :
        a # b => users[a].username # users[b].username

\* C5: no two stored items of one organization have the same sku.
C5_UniqueSkuPerOrganization ==
    \A a, b \in DOMAIN items :
        a # b => ~(/\ items[a].sku = items[b].sku
                   /\ items[a].organizationId = items[b].organizationId)

\* C6: no two stored orders of one organization have the same orderNumber.
C6_UniqueOrderNumberPerOrganization ==
    \A a, b \in DOMAIN orders :
        a # b => ~(/\ orders[a].orderNumber = orders[b].orderNumber
                   /\ orders[a].organizationId = orders[b].organizationId)

\* C10: an accepted POST /api/orders with N line items answers with exactly N
\* order items, each with the orderId of the order this request created, and
\* the store gains exactly that order and those N order-item rows.
C10_OrderItemsCreated ==
    [][(resp'.route = "POST /api/orders" /\ resp'.status = 201)
           => LET body == resp'.request.body
                  N == IF "items" \in DOMAIN body THEN Len(body.items) ELSE 0
                  created == resp'.body
                  newIds == {created.items[k].id : k \in DOMAIN created.items}
              IN  /\ Len(created.items) = N
                  /\ Cardinality(newIds) = N
                  /\ \A k \in DOMAIN created.items :
                         /\ created.items[k].orderId = created.id
                         /\ orderItems'[created.items[k].id] = created.items[k]
                  /\ DOMAIN orders' = DOMAIN orders \cup {created.id}
                  /\ created.id \notin DOMAIN orders
                  /\ orders'[created.id] = Omit(created, {"items"})
                  /\ \A k \in DOMAIN orders : orders'[k] = orders[k]
                  /\ DOMAIN orderItems' = DOMAIN orderItems \cup newIds
                  /\ newIds \cap DOMAIN orderItems = {}
                  /\ \A k \in DOMAIN orderItems : orderItems'[k] = orderItems[k]]_vars

\* an order accepted with two line items, after an earlier order with items
C10_Witness ==
    /\ resp.route = "POST /api/orders"
    /\ resp.status = 201
    /\ Len(resp.body.items) = 2
    /\ resp.body.id = 2
    /\ Cardinality(DOMAIN orderItems) > 2

---------------------------------------------------------------------------
(* C7 - C9: inventory receipts *)

Pairs == {<<receipts[i].itemId, receipts[i].binId>> : i \in DOMAIN receipts}

RowsOf(pair) ==
    {k \in DOMAIN inventory :
        inventory[k].itemId = pair[1] /\ inventory[k].binId = pair[2]}

\* a quantity that was left out counts as its column default, 0
NumberOr0(obj, f) == IF Has(obj, f) THEN obj[f] ELSE 0

RECURSIVE ReceivedUpTo(_, _, _)
\* the sum of field f over the first n accepted receipts for the pair
ReceivedUpTo(n, pair, f) ==
    IF n = 0 THEN 0
    ELSE ReceivedUpTo(n - 1, pair, f)
             + (IF <<receipts[n].itemId, receipts[n].binId>> = pair
                THEN NumberOr0(receipts[n], f) ELSE 0)

Received(pair, f) == ReceivedUpTo(Len(receipts), pair, f)

\* C7: after POST /api/inventory requests that do not overlap, each received
\* (itemId, binId) has exactly one row, whose quantity and allocatedQuantity
\* are the sums over the accepted requests for the pair.
C7_ReceiptsMerged ==
    Quiet =>
        \A pair \in Pairs :
            /\ Cardinality(RowsOf(pair)) = 1
            /\ \A k \in RowsOf(pair) :
                   /\ NumberOr0(inventory[k], "quantity") = Received(pair, "quantity")
                   /\ NumberOr0(inventory[k], "allocatedQuantity")
                          = Received(pair, "allocatedQuantity")

---------------------------------------------------------------------------
(* C11: create, then fetch by the returned id *)

\* the get-by-id route and the insert-schema columns of each create route
RoundTripRoutes ==
    {<<Entities[kind].post, Entities[kind].get, Entities[kind].columns>> :
        kind \in EntityKinds}
        \cup {<<"POST /api/users", "GET /api/users/:id", UserColumns>>,
              <<"POST /api/roles", "GET /api/roles/:id", RoleColumns>>,
              <<"POST /api/items", "GET /api/items/:id", ItemColumns>>,
              <<"POST /api/orders", "GET /api/orders/:id", OrderColumns>>,
              <<"POST /api/shipments", "GET /api/shipments/:id", ShipmentColumns>>}

\* this step answers the fetch, by the returned id, of the record the previous
\* request created
FetchAfterCreate(r) ==
    /\ resp.route = r[1]
    /\ resp.status = 201
    /\ resp'.route = r[2]
    /\ resp'.ran
    /\ resp'.request.id = resp.body.id

\* the fetched record, without the given fields, is the given input plus the id
FetchedIs(input, dropped) ==
    /\ resp'.status = 200
    /\ Omit(resp'.body, dropped) = Merge(input, [id |-> resp.body.id])

\* C11 as stated: a record fetched right after its creation equals the
\* submitted body plus the assigned id (and, for orders and shipments, a
\* server-assigned timestamp), no submitted field altered or dropped.
C11_RoundTripExact ==
    [][\A r \in RoundTripRoutes :
           FetchAfterCreate(r) =>
               FetchedIs(resp.request.body,
                         CASE r[1] = "POST /api/orders" -> {"createdAt", "updatedAt"}
                           [] r[1] = "POST /api/shipments" -> {"createdAt"}
                           [] OTHER -> {})]_vars

\* C11 as amended: the fetched record is the insert-schema columns of the
\* submitted body plus the assigned id, except that a user's password is not
\* returned, an order's and a shipment's createdBy is the principal's id, an
\* order carries createdAt = updatedAt and its order items under items, and a
\* shipment carries createdAt and its order under order.
C11_RoundTripColumns ==
    [][\A r \in RoundTripRoutes :
           FetchAfterCreate(r) =>
               LET columns == Pick(resp.request.body, r[3])
                   principal == [createdBy |-> resp.user.id]
               IN  CASE r[1] = "POST /api/users" ->
                          /\ FetchedIs(Omit(columns, {"password"}), {})
                          /\ users[resp.body.id].password
                                 = BcryptHash(resp.request.body.password)
                     [] r[1] = "POST /api/orders" ->
                          /\ FetchedIs(Merge(columns, principal),
                                       {"createdAt", "updatedAt", "items"})
                          /\ {"createdAt", "updatedAt"} \subseteq DOMAIN resp'.body
                          /\ resp'.body.createdAt = resp'.body.updatedAt
                          /\ Has(resp.body, "createdAt")
                          /\ resp'.body.createdAt = resp.body.createdAt
                          /\ Len(resp'.body.items) = Len(resp.body.items)
                          /\ \A k \in DOMAIN resp.body.items :
                                 Omit(resp'.body.items[k], {"item"}) = resp.body.items[k]
                     [] r[1] = "POST /api/shipments" ->
                          /\ FetchedIs(Merge(columns, principal), {"createdAt", "order"})
                          /\ Has(resp'.body, "createdAt") /\ Has(resp.body, "createdAt")
                          /\ resp'.body.createdAt = resp.body.createdAt
                          /\ Has(resp'.body, "order")
                                 => resp'.body.order = orders[resp'.body.orderId]
                     [] OTHER -> FetchedIs(columns, {})]_vars

\* the newest order, created with two line items by a body whose createdBy is
\* not the principal, has just been fetched: no request was accepted since
C11_Witness ==
    /\ resp.route = "GET /api/orders/:id"
    /\ resp.status = 200
    /\ resp.body.id = currentIds.order - 1
    /\ resp.body.createdBy = resp.user.id
    /\ resp.body.createdAt > 0
    /\ Len(resp.body.items) = 2
    /\ activityLogs[currentIds.activityLog - 1].entityType = "order"
    /\ activityLogs[currentIds.activityLog - 1].entityId = IdToString(resp.body.id)
---------------------------------------------------------------------------
(* C12: an update preserves the fields the payload leaves out *)

\* the map of MemStorage that each update route writes
PatchTargets ==
    [r \in {Entities[k].patch : k \in EntityKinds} |->
         tables[CHOOSE k \in EntityKinds : Entities[k].patch = r]]
      @@ ("PATCH /api/users/:id" :> users)
      @@ ("PATCH /api/roles/:id" :> roles)
      @@ ("PATCH /api/items/:id" :> items)
      @@ ("PATCH /api/inventory/:id" :> inventory)
      @@ ("PATCH /api/orders/:id" :> orders)
      @@ ("PATCH /api/order-items/:id" :> orderItems)
      @@ ("PATCH /api/shipments/:id" :> shipments)

PatchRoutes == DOMAIN PatchTargets

\* this step is the handling of an update request that route r accepted
AcceptedPatch(r) ==
    /\ resp'.route = r /\ resp'.status = 200
    /\ activityLogs' # activityLogs

\* in this step, the fields of the addressed record that the payload leaves
\* out, other than those of the set exempt, keep their values
FramePreserved(r, exempt) ==
    LET id == resp'.request.id
        before == PatchTargets[r][id]
        after == PatchTargets'[r][id]
    IN  \A f \in (DOMAIN before \ DOMAIN resp'.request.body) \ exempt :
            Has(after, f) /\ after[f] = before[f]

\* C12 as stated: for every entity type and every accepted update request, each
\* field of the stored record that is not present in the payload has the same
\* value after the update as before it
C12_FrameExact ==
    [][\A r \in PatchRoutes : AcceptedPatch(r) => FramePreserved(r, {})]_vars

\* C12, amended: for every entity type and every accepted update request, each
\* field of the stored record that is not present in the payload has the same
\* value after the update as before it, except an order's updatedAt, which every
\* accepted order update sets to the time of the update
C12_FrameButUpdatedAt ==
    [][\A r \in PatchRoutes :
           AcceptedPatch(r) =>
               IF r = "PATCH /api/orders/:id"
               THEN /\ FramePreserved(r, {"updatedAt"})
                    /\ orders'[resp'.request.id].updatedAt = now
               ELSE FramePreserved(r, {})]_vars

\* an order created at time 0 was updated later with a payload that carries only
\* the status: the other fields are as created, updatedAt is the later time
C12_Witness ==
    /\ resp.route = "PATCH /api/orders/:id" /\ resp.status = 200
    /\ DOMAIN resp.request.body = {"status"}
    /\ orders[1].status = "shipped"
    /\ orders[1].customerName = "Ann"
    /\ orders[1].createdAt = 0
    /\ orders[1].updatedAt > 0

---------------------------------------------------------------------------
(* C13, C14, C15: sessions *)

\* C13: after a login with the username and matching password of a stored user
\* U succeeds on a session, a current-user request on that session made before
\* the next logout returns U with its resolved role, and never 401; stated for
\* the current-user request that directly follows the login
C13_CurrentUserAfterLogin ==
    [][(/\ resp.route = "POST /api/auth/login" /\ resp.status = 200
        /\ resp'.route = "GET /api/auth/current-user"
        /\ resp'.session = resp.session)
           => /\ resp'.status = 200
              /\ resp'.body = resp.body]_vars

\* C14: a failed login reveals nothing about whether the username exists: a
\* failed attempt changes neither the session nor the store, and its status and
\* body are those any other failing attempt gets in the same state, be its
\* username unknown or its password wrong
C14_FailedLoginsAlike ==
    [][(resp'.route = "POST /api/auth/login" /\ resp'.status # 200)
           => /\ UNCHANGED <<store, sessions>>
              /\ \A c \in LoginInputs :
                     LocalStrategy(c[1], c[2]) = Undefined
                         => AuthenticateFailure(FailureInfo(c[1], c[2]))
                                = [status |-> resp'.status, body |-> resp'.body]]_vars

\* a login with the username of a stored user and a wrong password has failed on
\* a session that is logged in, while another username of the inputs is unknown
C14_Witness ==
    /\ resp.route = "POST /api/auth/login" /\ resp.status = 401
    /\ getUserByUsername(resp.request.body.username) # Undefined
    /\ sessions[resp.session] # 0
    /\ \E c \in LoginInputs : getUserByUsername(c[1]) = Undefined

\* the routes registered with isAuthenticated
ProtectedRoutes == {route \in Routes : RouteChecksSession(route)}

\* C15: after a logout on a session, every current-user request and every
\* request to a protected route on that session is answered 401 until a later
\* login on that session succeeds: a logout leaves the session without a
\* principal, only a successful login gives it one, and a session without a
\* principal gets 401 from those routes
C15_LoggedOutUntilLogin ==
    [][\A s \in Sessions :
           /\ (resp'.route = "POST /api/auth/logout" /\ resp'.session = s)
                  => sessions'[s] = 0
           /\ (sessions[s] = 0 /\ sessions'[s] # 0)
                  => /\ resp'.route = "POST /api/auth/login"
                     /\ resp'.session = s /\ resp'.status = 200
           /\ (/\ sessions[s] = 0 /\ resp'.session = s
               /\ resp'.route \in ProtectedRoutes \cup {"GET /api/auth/current-user"})
                  => /\ resp'.status = 401
                     /\ UNCHANGED <<store, sessions>>]_vars

\* the session has created a user and then logged out, and a request to a
\* protected route is answered 401
C15_Witness ==
    /\ Len(activityLogs) > 0
    /\ sessions[resp.session] = 0
    /\ resp.route = "GET /api/users/:id" /\ resp.status = 401

---------------------------------------------------------------------------
(* C16: the activity log and the inventory-transaction ledger *)

\* in a step from map before to map after, every entry is kept as it was, under
\* its key and with its id, and each entry added has an id greater than the id
\* of every entry that was there
AppendOnly(before, after) ==
    /\ \A k \in DOMAIN before :
           /\ k \in DOMAIN after
           /\ after[k] = before[k]
    /\ \A k \in DOMAIN after \ DOMAIN before :
           /\ Has(after[k], "id")
           /\ \A j \in DOMAIN before : after[k].id > before[j].id

\* C16: the activity log and the inventory-transaction ledger are append-only:
\* an entry once written keeps its id and all its fields and is never removed,
\* and each new entry receives an id strictly greater than every earlier
\* entry's id
C16_AppendOnly ==
    [][/\ AppendOnly(activityLogs, activityLogs')
       /\ AppendOnly(inventoryTransactions, inventoryTransactions')]_vars

\* a receipt and a later adjustment are in the ledger, and the log holds an
\* entry for each, in the order of their ids
C16_Witness ==
    /\ Len(inventoryTransactions) = 2
    /\ inventoryTransactions[1].type = "receiving"
    /\ inventoryTransactions[2].type = "adjustment"
    /\ inventoryTransactions[1].id < inventoryTransactions[2].id
    /\ Len(activityLogs) >= 2
    /\ \A k \in 1 .. Len(activityLogs) - 1 : activityLogs[k].id < activityLogs[k + 1].id

---------------------------------------------------------------------------
(* C17: every create and update is logged *)

\* the entityType of the activity-log entry of each create and update route
AuditType ==
    [r \in {Entities[k].post : k \in EntityKinds} |->
         Entities[CHOOSE k \in EntityKinds : Entities[k].post = r].entityType]
      @@ [r \in {Entities[k].patch : k \in EntityKinds} |->
              Entities[CHOOSE k \in EntityKinds : Entities[k].patch = r].entityType]
      @@ ("POST /api/users" :> "user") @@ ("PATCH /api/users/:id" :> "user")
      @@ ("POST /api/roles" :> "role") @@ ("PATCH /api/roles/:id" :> "role")
      @@ ("POST /api/items" :> "item") @@ ("PATCH /api/items/:id" :> "item")
      @@ ("POST /api/inventory" :> "inventory")
      @@ ("PATCH /api/inventory/:id" :> "inventory")
      @@ ("POST /api/orders" :> "order") @@ ("PATCH /api/orders/:id" :> "order")
      @@ ("PATCH /api/order-items/:id" :> "orderItem")
      @@ ("POST /api/shipments" :> "shipment")
      @@ ("PATCH /api/shipments/:id" :> "shipment")

\* the activity log holds an entry of some user for the record of the type
\* stored under the key
Audited(type, key) ==
    \E k \in DOMAIN activityLogs :
        /\ Has(activityLogs[k], "userId")
        /\ activityLogs[k].entityType = type
        /\ activityLogs[k].entityId = IdToString(key)

\* this step answers a create or update request with 200 or 201
AnsweredWrite ==
    /\ resp'.route \in DOMAIN AuditType
    /\ resp'.status \in {200, 201}
    /\ resp' # resp \/ (Quiet /\ Quiet' /\ store' # store)

\* the entry the step appended last names the principal and the record
LoggedWrite ==
    LET last == activityLogs'[Len(activityLogs')]
        id == IF Has(resp'.request, "id") THEN resp'.request.id ELSE resp'.body.id
    IN  /\ Len(activityLogs') > Len(activityLogs)
        /\ last.userId = resp'.user.id
        /\ last.entityType = AuditType[resp'.route]
        /\ last.entityId = IdToString(id)

\* when no request is in flight, every record other than seed data and log,
\* ledger and order-item rows has an entry
EveryRecordAudited ==
    Quiet =>
        /\ \A key \in DOMAIN users \ DOMAIN SeedUsers : Audited("user", key)
        /\ \A key \in DOMAIN roles \ DOMAIN SeedRoles : Audited("role", key)
        /\ \A key \in DOMAIN items : Audited("item", key)
        /\ \A key \in DOMAIN inventory : Audited("inventory", key)
        /\ \A key \in DOMAIN orders : Audited("order", key)
        /\ \A key \in DOMAIN shipments : Audited("shipment", key)
        /\ \A kind \in EntityKinds :
               \A key \in DOMAIN tables[kind] \ DOMAIN SeedTables[kind] :
                   Audited(Entities[kind].entityType, key)

\* C17: every create or update request that is answered with 200 or 201 has
\* appended, before the response, an activity-log entry whose userId is the
\* authenticated principal's id, whose entityType names the kind of record
\* changed and whose entityId is the stringified id of that record; every record
\* present in the store other than seed data and log, ledger and order-item rows
\* has at least one such entry
C17_EveryWriteLogged ==
    /\ [][AnsweredWrite => LoggedWrite]_vars
    /\ []EveryRecordAudited

---------------------------------------------------------------------------
(* C18: the activity-log entries of an order update *)

\* C18: an accepted PATCH /api/orders/:id whose payload status differs from the
\* order's status before the update appends two activity-log entries for that
\* order, first one with action "status_change", whose previousStatus is the
\* status the order had before this update and whose newStatus is the payload
\* status, then one with action "update"; when the payload has no status or the
\* same status, exactly one entry with action "update" is appended
C18_StatusChangeLogged ==
    [][(/\ resp'.route = "PATCH /api/orders/:id" /\ resp'.status = 200
        /\ activityLogs' # activityLogs)
           => LET id == resp'.request.id
                  body == resp'.request.body
                  n == Len(activityLogs)
                  forOrder(k) ==
                      /\ k \in DOMAIN activityLogs'
                      /\ activityLogs'[k].entityType = "order"
                      /\ activityLogs'[k].entityId = IdToString(id)
                  differs ==
                      /\ Has(body, "status")
                      /\ ~(Has(orders[id], "status")
                               /\ orders[id].status = body.status)
              IN  IF differs
                  THEN /\ Len(activityLogs') = n + 2
                       /\ forOrder(n + 1) /\ forOrder(n + 2)
                       /\ activityLogs'[n + 1].action = "status_change"
                       /\ activityLogs'[n + 1].details.newStatus = body.status
                       /\ Has(orders[id], "status")
                              => activityLogs'[n + 1].details.previousStatus
                                     = orders[id].status
                       /\ activityLogs'[n + 2].action = "update"
                  ELSE /\ Len(activityLogs') = n + 1
                       /\ forOrder(n + 1)
                       /\ activityLogs'[n + 1].action = "update"]_vars

---------------------------------------------------------------------------
(* C19: a shipment and the status of its order *)

\* C19: an accepted POST /api/shipments sets the parent order's status to
\* "shipped" if and only if the request has a truthy updateOrderStatus and the
\* order with the shipment's orderId exists; otherwise no order record
\* (including its status and updatedAt) is changed by the request
C19_ShipsParentOrder ==
    [][(/\ resp'.route = "POST /api/shipments" /\ resp'.status = 201
        /\ shipments' # shipments)
           => LET body == resp'.request.body
                  parent == resp'.body.orderId
              IN  IF TruthyFlag(body, "updateOrderStatus") /\ parent \in DOMAIN orders
                  THEN /\ Has(orders'[parent], "status")
                       /\ orders'[parent].status = "shipped"
                  ELSE orders' = orders]_vars

---------------------------------------------------------------------------
(* C20: the quantity of an inventory transaction *)

\* C20: every inventory transaction records the signed quantity delta of the
\* change it documents: for POST /api/inventory the received quantity, and for
\* PATCH /api/inventory/:id with a quantity in the payload the new quantity minus
\* the quantity the row held before the update
C20_LedgerRecordsDelta ==
    [][\A k \in DOMAIN inventoryTransactions' \ DOMAIN inventoryTransactions :
           LET tx == inventoryTransactions'[k]
           IN  /\ Has(tx, "quantity")
               /\ IF tx.type = "adjustment"
                  THEN tx.quantity = resp'.request.body.quantity
                                         - inventory[resp'.request.id].quantity
                  ELSE \E p \in Procs :
                           /\ procs[p].pc = "transaction" /\ procs'[p].pc = "log"
                           /\ tx.quantity = procs[p].inventoryData.quantity]_vars

---------------------------------------------------------------------------
(* C22: the id field and the key of a record *)

\* every record of the map carries the key it is stored under as its id
IdIsKey(m) == \A k \in DOMAIN m : Has(m[k], "id") /\ m[k].id = k

\* C22: in every reachable state and for each entity type, every stored
\* record's id field equals the key it is stored under in that entity's map, so
\* no two records of one type carry the same id, including after update requests
\* whose payload contains an id field
C22_IdIsKey ==
    /\ IdIsKey(users) /\ IdIsKey(roles) /\ IdIsKey(items) /\ IdIsKey(inventory)
    /\ IdIsKey(inventoryTransactions) /\ IdIsKey(orders) /\ IdIsKey(orderItems)
    /\ IdIsKey(shipments) /\ IdIsKey(activityLogs)
    /\ \A kind \in EntityKinds : IdIsKey(tables[kind])

---------------------------------------------------------------------------
(* C21: the CSV export *)

\* the inventory records the export for the organization is to list: item and
\* bin exist and the item is of the organization
Exported(organizationId) ==
    {k \in DOMAIN inventory :
        /\ inventory[k].itemId \in DOMAIN items
        /\ inventory[k].binId \in DOMAIN tables.bins
        /\ Has(items[inventory[k].itemId], "organizationId")
        /\ items[inventory[k].itemId].organizationId = organizationId}

\* C21: the CSV export for organization O consists of the fixed header row
\* followed by exactly one data row per inventory record whose item and bin both
\* exist and whose item's organizationId is O, with Available equal to quantity
\* minus allocatedQuantity; when no such record exists the document is the
\* header row only
C21_CsvRows ==
    [][(/\ resp'.route = "GET /api/reports/inventory-csv" /\ resp'.status = 200
        /\ Quiet /\ UNCHANGED store)
           => LET doc == resp'.body
                  exported == Exported(resp'.request.organizationId)
                  lines(row) == {i \in 2 .. Len(doc) : doc[i] = row}
                  records(row) == {k \in exported : CsvRow(inventory[k]) = row}
              IN  /\ doc[1] = CsvHeader
                  /\ Len(doc) = 1 + Cardinality(exported)
                  /\ \A k \in exported :
                         Cardinality(lines(CsvRow(inventory[k])))
                             = Cardinality(records(CsvRow(inventory[k])))
                  /\ \A i \in 2 .. Len(doc) :
                         doc[i][9] = [number |-> JsSub(ToNumber(doc[i][7], "number"),
                                                       ToNumber(doc[i][8], "number"))]
                  /\ exported = {} => doc = <<CsvHeader>>]_vars

\* the export for organization 1 holds the header and the one row of its item,
\* with Available the quantity less the allocated quantity
C21_Witness ==
    /\ resp.route = "GET /api/reports/inventory-csv" /\ resp.status = 200
    /\ resp.request.organizationId = 1
    /\ Len(resp.body) = 2
    /\ resp.body[2][1] = Quoted("A")
    /\ resp.body[2][7] = [number |-> MaxQty]
    /\ resp.body[2][9] = [number |-> MaxQty - 1]

---------------------------------------------------------------------------
(* C23: records are never removed *)

\* the keys of every map of the store
StoredKeys ==
    [users |-> DOMAIN users, roles |-> DOMAIN roles, items |-> DOMAIN items,
     inventory |-> DOMAIN inventory,
     inventoryTransactions |-> DOMAIN inventoryTransactions,
     orders |-> DOMAIN orders, orderItems |-> DOMAIN orderItems,
     shipments |-> DOMAIN shipments, activityLogs |-> DOMAIN activityLogs]
      @@ [kind \in EntityKinds |-> DOMAIN tables[kind]]

\* C23: no operation ever removes a record: for every entity type, a record id
\* that is present in the store in some state is present in every later state
C23_NoRecordRemoved ==
    [][\A type \in DOMAIN StoredKeys : StoredKeys[type] \subseteq StoredKeys'[type]]_vars

\* a warehouse was created and is still stored after later updates of other
\* records have filled the activity log
C23_Witness ==
    /\ 1 \in DOMAIN tables.warehouses
    /\ Len(activityLogs) = MaxLog
    /\ resp.route = "PATCH /api/users/:id" /\ resp.status = 200


---------------------------------------------------------------------------
(* C24 *)

\* a step of a handler that runs in one piece, or the answer of the validation
\* of POST /api/inventory: the steps that answer a request at once
AnswersAtOnce == UNCHANGED procs

\* C24: every request answered with a 4xx status leaves the store unchanged: a
\* create request whose body fails validation (400), an update or get for an id
\* that does not exist (404) and a request refused by the permission gate (403)
\* write no record, modify no record, consume no id and append no activity-log
\* or inventory-transaction entry
C24_ClientErrorWritesNothing ==
    [][(AnswersAtOnce /\ resp'.status \in 400 .. 499) => UNCHANGED store]_vars

\* witness: with a record stored and logged, an update of an order that does
\* not exist is answered 404
C24_Witness ==
    /\ resp.status = 404
    /\ resp.route = "PATCH /api/orders/:id"
    /\ currentIds.activityLog > 1

---------------------------------------------------------------------------
(* C25 *)

\* the foreign id f of every record of children, where it has one, is a key of
\* parents
Refers(children, f, parents) ==
    \A k \in DOMAIN children :
        Has(children[k], f) => children[k][f] \in DOMAIN parents

\* C25: in every reachable state every child record's foreign id references an
\* existing parent: each zone's warehouseId, bin's zoneId, warehouse's, item's
\* and order's organizationId, inventory row's itemId and binId, order item's
\* orderId and itemId, shipment's orderId and user's roleId and organizationId
\* names a record present in the corresponding map
C25_ForeignIdsExist ==
    /\ Refers(tables.zones, "warehouseId", tables.warehouses)
    /\ Refers(tables.bins, "zoneId", tables.zones)
    /\ Refers(tables.warehouses, "organizationId", tables.organizations)
    /\ Refers(items, "organizationId", tables.organizations)
    /\ Refers(orders, "organizationId", tables.organizations)
    /\ Refers(inventory, "itemId", items)
    /\ Refers(inventory, "binId", tables.bins)
    /\ Refers(orderItems, "orderId", orders)
    /\ Refers(orderItems, "itemId", items)
    /\ Refers(shipments, "orderId", orders)
    /\ Refers(users, "roleId", roles)
    /\ Refers(users, "organizationId", tables.organizations)

---------------------------------------------------------------------------
(* C26 *)

\* C26: order status has no transition table: whatever the status of a stored
\* order, a principal who passes the orders:update gate can move it to any
\* status value by one PATCH /api/orders/:id, from "canceled" back to
\* "pending" and to a value outside the documented set as well
C26_AnyStatusToAny ==
    \A s \in Sessions, id \in DOMAIN orders, t \in Statuses :
        (/\ Quiet
         /\ LogRoom(2)
         /\ Middleware(deserializeUser(s), "PATCH /api/orders/:id") = PassOn)
            => ENABLED (/\ PatchOrders(s, id, [status |-> t])
                        /\ resp'.status = 200
                        /\ orders'[id].status = t)

\* witness: a canceled order has been moved back to pending
C26_Witness ==
    /\ resp.route = "PATCH /api/orders/:id"
    /\ resp.status = 200
    /\ resp.body.status = "pending"
    /\ \E k \in DOMAIN activityLogs :
           /\ activityLogs[k].action = "status_change"
           /\ activityLogs[k].details.previousStatus = "canceled"
           /\ activityLogs[k].details.newStatus = "pending"

---------------------------------------------------------------------------
(* C27 *)

RECURSIVE LedgerSum(_, _, _)
\* the sum of the quantity fields of the first n inventory transactions of the
\* pair (itemId, binId)
LedgerSum(itemId, binId, n) ==
    IF n = 0 THEN 0
    ELSE LET tx == inventoryTransactions[n]
         IN  IF Has(tx, "itemId") /\ tx.itemId = itemId
                /\ Has(tx, "binId") /\ tx.binId = binId
             THEN JsAdd(LedgerSum(itemId, binId, n - 1), ToNumber(tx, "quantity"))
             ELSE LedgerSum(itemId, binId, n - 1)

\* C27: ledger consistency: in every state reachable by non-overlapping
\* POST /api/inventory and PATCH /api/inventory/:id requests, with no request
\* in flight, the quantity of each inventory row equals the sum of the quantity
\* fields of all inventory transactions of the row's (itemId, binId)
C27_LedgerConsistent ==
    Quiet =>
        \A k \in DOMAIN inventory :
            ToNumber(inventory[k], "quantity")
                = LedgerSum(inventory[k].itemId, inventory[k].binId,
                            Len(inventoryTransactions))

---------------------------------------------------------------------------
(* C28 *)

\* the status of an order record: one value, or none
StatusOf(order) == IF Has(order, "status") THEN <<order.status>> ELSE << >>

\* C28: every change of a stored order's status value, by whichever request
\* causes it (PATCH /api/orders/:id or POST /api/shipments with
\* updateOrderStatus), is accompanied in the same request by an activity-log
\* entry with entityType "order", action "status_change" and that order's id
C28_StatusChangeAlwaysLogged ==
    [][\A id \in DOMAIN orders :
           StatusOf(orders'[id]) # StatusOf(orders[id])
               => \E k \in DOMAIN activityLogs' \ DOMAIN activityLogs :
                      /\ activityLogs'[k].entityType = "order"
                      /\ activityLogs'[k].action = "status_change"
                      /\ activityLogs'[k].entityId = IdToString(id)]_vars

---------------------------------------------------------------------------
(* C29 *)

\* the user records a successful response of a user or auth route carries
UsersInResponse ==
    IF resp.status \notin 200 .. 299 THEN {}
    ELSE IF resp.route \in {"POST /api/auth/login", "GET /api/auth/current-user"}
    THEN {resp.body.user}
    ELSE IF resp.route = "GET /api/users"
    THEN {resp.body[i] : i \in DOMAIN resp.body}
    ELSE IF resp.route \in {"GET /api/users/:id", "POST /api/users",
                            "PATCH /api/users/:id"}
    THEN {resp.body}
    ELSE {}

\* C29: no response of any endpoint, the user list, get, create and update
\* routes and also login and current-user, contains a user's stored password
\* hash
C29_NoPasswordInResponse == \A user \in UsersInResponse : ~Has(user, "password")

---------------------------------------------------------------------------
(* C30 *)

\* the principal's role does not contain "all"
NotGlobal(user) ==
    /\ user # Undefined
    /\ \/ ~Has(user, "role")
       \/ user.role = Undefined
       \/ "all" \notin user.role.permissions

\* the order routes that answer with one order record
OrderRecordRoutes == {"GET /api/orders/:id", "POST /api/orders", "PATCH /api/orders/:id"}

\* C30: tenant isolation: an authenticated principal whose role does not contain
\* "all" can neither read nor modify, through a get-by-id, create or update
\* route, a record owned by an organization other than the principal's own
\* organizationId: every order such a request answers with or writes belongs to
\* the principal's organization
C30_TenantIsolation ==
    (/\ resp.ran
     /\ resp.status \in 200 .. 299
     /\ resp.route \in OrderRecordRoutes
     /\ NotGlobal(resp.user)
     /\ Has(resp.body, "organizationId"))
        => /\ Has(resp.user, "organizationId")
           /\ resp.body.organizationId = resp.user.organizationId

====
